---- MODULE Spec2Model ----
(***************************************************************************)
(* Model of src/app.py: a Flask dashboard over the Pterodactyl panel API.  *)
(*                                                                         *)
(* Server state: request_times (the rate limiter's per-IP timestamp        *)
(* lists), api_client.cache (the TTL cache of PterodactylAPI), and the     *)
(* Flask session of each client.  Every HTTP request runs                  *)
(*   check_csrf -> login_required -> rate_limit.wrapped -> route handler   *)
(* in a worker thread.  The pipeline up to the handler's first call of the  *)
(* panel is one step; the thread then waits for the panel's answer and the *)
(* reply is a later step, with other requests and the clock in between.    *)
(* SpecConc, SpecCache and SpecAttempt interleave the threads statement by *)
(* statement.                                                              *)
(*                                                                         *)
(* Time is in seconds.  The clock only moves forward.                      *)
(***************************************************************************)
EXTENDS Integers, Sequences, FiniteSets, TLC

-----------------------------------------------------------------------------
(* Bounds of the model *)

\* The clock advances in steps of TickStep seconds, up to MaxTime.
TickStep == 30
MaxTime == 90

\* Versions of the upstream's data (the panel's data changes over time).
MaxVer == 2

\* Pages the upstream may serve to one get_all_data call.
MaxPages == 2

\* SpecConc: the worker threads take no new request once a client has this
\* many admissions on record.
MaxAdmitted == 3

\* The decorators' limits, scaled down so that a client can exhaust them
\* within the model: rate_limit(5, 60) on /api/stats, rate_limit(10, 60) on
\* /api/status and /api/server, rate_limit() = (30, 60) on the rest.  Their
\* order (stats < status < default) is the code's.
LimitStats == 1
LimitStatus == 2
LimitDefault == 3

-----------------------------------------------------------------------------
(* Program constants *)

\* rate_limit(limit=30, per=60); every route passes per = 60
Per == 60
\* PterodactylAPI.cache_timeout
cache_timeout == 60
\* Config.SESSION_TIMEOUT
SESSION_TIMEOUT == 3600
\* get_all_data: max_pages
max_pages == 10

-----------------------------------------------------------------------------
(* Inputs *)

\* request.remote_addr; each address has one browser (one session cookie)
IPs == {"ip1", "ip2"}

\* values of secrets.token_hex(16)
Tokens == {"t1", "t2"}
NoToken == "none"
\* X-CSRF-Token header of a request
Headers == Tokens \cup {NoToken}
\* Host header of a request: the dashboard's own name, or another one
DashHost == "dashboard.example"
Hosts == {DashHost, "evil.example"}

\* The worker threads of the server
Workers == {"w1", "w2"}
None == "None"

VARIABLES
    now,            \* time.time() / datetime.now()
    request_times,  \* request_times: ip -> list of timestamps
    cache,          \* api_client.cache: cache key -> {'data', 'timestamp'}
    session,        \* the session cookie each client holds: what its next
                    \* request presents; a response whose request changed
                    \* its session replaces it (Set-Cookie)
    login_attempts, \* login_attempts: ip -> list of times of failed logins
    blocked_ips,    \* blocked_ips: ip -> time until which it is blocked
    admitted,       \* history: per ip, the times within the window ending at
                    \* its latest admission at which it entered the handler
                    \* of a rate-limited route
    stored,         \* history: per <<endpoint, params>>, the body and time of
                    \* the last successful cached GET made for it
    rejected,       \* history: per ip, whether its latest rate-limit check
                    \* turned it away (no admission since)
    last,           \* the request being answered and its response (history:
                    \* had_entry says that the cache held an entry for it)
    threads,        \* where each worker thread is in its request
    document,       \* SpecRewrite: the HTML document the proxy variants
                    \* rewrite, and how often it has been rewritten
    logins          \* history: per ip, the times of its failed logins that
                    \* were less than AttemptWindow old at the latest of
                    \* them (failed), when the block those earned it runs
                    \* out (until), when login_required last let a request
                    \* of it through or, later, it logged in (seen), and
                    \* whether login_required has cleared the session for
                    \* its age (expired)

vars == <<now, request_times, cache, session, login_attempts, blocked_ips,
          admitted, stored, rejected, last, threads, document, logins>>

-----------------------------------------------------------------------------
(* Values *)

\* A params dict is a set of <<name, JSON text of the value>> pairs; None and
\* {} are both the empty set (the code only tests `if params`, and
\* get_paged_data / get_all_data turn None into {}).
NoParams == {}

\* The parameter names the routes use, in the order sort_keys gives them.
ParamOrder == <<"filter[name]", "filter[suspended]", "page", "per_page">>

\* What a request to the panel is about: <<endpoint, params>>.
NoReq == <<"", NoParams>>

\* A JSON body of the panel.  shape says which fields it has:
\*   "full"   'data' and 'meta.pagination.total'
\*   "nodata" no 'data'
\*   "nometa" no 'meta'
\*   "empty"  the dict {} that _request makes of a response without content
\*   "N/A"    get_stats' placeholder for a failed call
EmptyBody == [req |-> NoReq, ver |-> 0, shape |-> "empty"]
NABody == [req |-> NoReq, ver |-> 0, shape |-> "N/A"]
NoBody == [req |-> NoReq, ver |-> 0, shape |-> "none"]

Bodies(req) ==
    {[req |-> req, ver |-> v, shape |-> "full"] : v \in 1..MaxVer}
    \cup {[req |-> req, ver |-> 1, shape |-> s] : s \in {"nodata", "nometa"}}

HttpErrorStatuses == {404, 503}
\* errors[0]['detail'] of an error body: a text, the empty string, null
\* (None), or nothing to read (no JSON, no 'errors', no 'detail')
NoDetail == "no detail"
Details == {NoDetail, None, "", "upstream detail"}

\* What requests.request / requests.get does for one call:
\*   "ok"          2xx with a JSON body
\*   "empty"       2xx without content
\*   "r429"        status 429
\*   "http_error"  another non-2xx status; detail is errors[0]['detail'] of
\*                 the error body, NoDetail when the body has none
\*   "timeout"     requests.exceptions.Timeout
\*   "conn_error"  another requests.exceptions.RequestException
Resp(kind, status, body, detail, next) ==
    [kind |-> kind, status |-> status, body |-> body, detail |-> detail, next |-> next]

Upstream(req) ==
    {Resp("ok", 200, b, NoDetail, n) : b \in Bodies(req), n \in BOOLEAN}
    \cup {Resp("empty", 204, NoBody, NoDetail, FALSE)}
    \cup {Resp("r429", 429, NoBody, NoDetail, FALSE)}
    \cup {Resp("http_error", s, NoBody, d, FALSE) : s \in HttpErrorStatuses, d \in Details}
    \cup {Resp(k, 0, NoBody, NoDetail, FALSE) : k \in {"timeout", "conn_error"}}

\* _request never follows a 'next' link: the responses that differ for it.
UpstreamOne(req) == {r \in Upstream(req) : r.next = FALSE}

\* 'login_time' not in session
NoLoginTime == <<"absent", 0>>

\* A worker thread between requests
IdleThread ==
    [pc |-> "idle", ip |-> "", current_time |-> 0, filtered |-> <<>>, status |-> 0,
     req |-> NoReq]

EmptySession == [logged_in |-> FALSE, login_time |-> NoLoginTime, csrf |-> NoToken]

-----------------------------------------------------------------------------
(* PterodactylAPI *)

HasParam(params, k) == \E pr \in params : pr[1] = k
ParamValue(params, k) == (CHOOSE pr \in params : pr[1] = k)[2]

\* json.dumps(params, sort_keys=True): the items in the order of their keys
json_dumps(params) ==
    LET keys == SelectSeq(ParamOrder, LAMBDA k : HasParam(params, k))
    IN  [i \in 1..Len(keys) |-> <<keys[i], ParamValue(params, keys[i])>>]

\* Mutant: the key leaves the params out.
_get_cache_key_EndpointOnly(endpoint, params) == <<endpoint, "_", <<>>>>

\* f"{endpoint}_{json.dumps(params, sort_keys=True) if params else ''}"
_get_cache_key(endpoint, params) ==
    <<endpoint, "_", IF params # {} THEN json_dumps(params) ELSE <<>>>>

\* Mutant: an entry whose age equals cache_timeout is still valid (<= for <).
_is_cache_valid_Inclusive(c, t, cache_key) ==
    IF cache_key \notin DOMAIN c
    THEN FALSE
    ELSE t - c[cache_key].timestamp <= cache_timeout

\* Mutant: an entry is valid whatever its age.
_is_cache_valid_NoTTL(c, t, cache_key) == cache_key \in DOMAIN c

\* _is_cache_valid(cache_key) at time t
_is_cache_valid(c, t, cache_key) ==
    IF cache_key \notin DOMAIN c
    THEN FALSE
    ELSE t - c[cache_key].timestamp < cache_timeout

\* The error message of the HTTPError handler: errors[0]['detail'] when it
\* can be read, whatever it is (lines 139-141).
HttpErrorMsg(r) ==
    IF r.detail # NoDetail
    THEN r.detail
    ELSE "API request failed with status " \o ToString(r.status) \o "."

\* Mutant: an existing entry is updated in place, its data replaced and its
\* timestamp kept.
CacheStore_InPlace(c, cache_key, result, t) ==
    IF cache_key \in DOMAIN c
    THEN [c EXCEPT ![cache_key].data = result]
    ELSE (cache_key :> [data |-> result, timestamp |-> t]) @@ c

\* Mutant: an existing entry is kept (setdefault instead of assignment).
CacheStore_KeepExisting(c, cache_key, result, t) ==
    IF cache_key \in DOMAIN c
    THEN c
    ELSE (cache_key :> [data |-> result, timestamp |-> t]) @@ c

\* self.cache[cache_key] = {'data': result, 'timestamp': time.time()}
CacheStore(c, cache_key, result, t) ==
    (cache_key :> [data |-> result, timestamp |-> t]) @@ c

\* Mutant: every 2xx answer is stored, whatever the method and use_cache.
CacheAfter_AnyMethod(c, t, cache_key, method, use_cache, r, result) ==
    IF r.kind \in {"ok", "empty"}
    THEN (cache_key :> [data |-> result, timestamp |-> t]) @@ c
    ELSE c

\* The cache after the upstream answered r to _request: the except branches
\* and the 429 return leave it alone, a 2xx answer to a cached GET is stored.
CacheAfter(c, t, cache_key, method, use_cache, r, result) ==
    IF r.kind \in {"ok", "empty"} /\ method = "GET" /\ use_cache
    THEN CacheStore(c, cache_key, result, t)
    ELSE c

\* Mutant: the text of the exception, which names the panel's URL, is
\* returned for a timeout or a connection error.
ErrorMsg_ExceptionText(r) ==
    CASE r.kind = "r429" -> "API rate limit hit. Please try again in a moment."
      [] r.kind = "timeout" -> "HTTPSConnectionPool(host='panel'): Read timed out."
      [] r.kind = "http_error" -> HttpErrorMsg(r)
      [] r.kind = "conn_error" -> "HTTPSConnectionPool(host='panel'): Max retries exceeded"
      [] OTHER -> None

\* The message _request returns with the answer r (None on success).
ErrorMsg(r) ==
    CASE r.kind = "r429" -> "API rate limit hit. Please try again in a moment."
      [] r.kind = "timeout" -> "Request to the panel API timed out."
      [] r.kind = "http_error" -> HttpErrorMsg(r)
      [] r.kind = "conn_error" ->
            "A critical error occurred while communicating with the Pterodactyl panel."
      [] OTHER -> None

\* _request(endpoint, method, data, params, use_cache) at time t with cache c,
\* when the panel answers r.  Gives the returned pair (result, error), the
\* cache afterwards, the number of upstream requests issued (calls), whether
\* the result came from the cache (hit) and how the call ended (outcome).
_request(c, t, endpoint, method, params, use_cache, r) ==
    LET cache_key == _get_cache_key(endpoint, params)
        result == CASE r.kind = "ok" -> r.body
                    [] r.kind = "empty" -> EmptyBody
                    [] OTHER -> NoBody
    IN  IF method = "GET" /\ use_cache /\ _is_cache_valid(c, t, cache_key)
        THEN [result |-> c[cache_key].data, error |-> None, cache |-> c,
              calls |-> 0, hit |-> TRUE, outcome |-> "cache", status_code |-> 0]
        ELSE [result |-> result, error |-> ErrorMsg(r),
              cache |-> CacheAfter(c, t, cache_key, method, use_cache, r, result),
              calls |-> 1, hit |-> FALSE, outcome |-> r.kind,
              status_code |-> r.status]

\* get_all_data(endpoint) when the panel answers the successive page
\* requests with pages[1], pages[2], ...: page i is requested while a 'next'
\* link was given and page_count < max_pages.  A page without 'data' raises
\* KeyError (fault); a failed request, or a 2xx without a JSON body
\* (JSONDecodeError, a RequestException), returns the error.
RECURSIVE get_all_pages(_, _, _, _)
get_all_pages(endpoint, pages, page_count, all_data) ==
    LET r == pages[page_count + 1]
        Ret(result, error, calls, fault) ==
            [result |-> result, error |-> error, calls |-> calls, fault |-> fault]
    IN  IF ~(page_count < max_pages /\ page_count < Len(pages))
        THEN Ret(all_data, None, page_count, FALSE)
        ELSE IF r.kind # "ok"
        THEN Ret(<<>>, "Could not fetch all data from " \o endpoint \o ".", page_count + 1, FALSE)
        ELSE IF r.body.shape = "nodata"
        THEN Ret(<<>>, None, page_count + 1, TRUE)
        ELSE IF r.next /\ r.body.shape # "nometa"
        THEN get_all_pages(endpoint, pages, page_count + 1, Append(all_data, r.body))
        ELSE Ret(Append(all_data, r.body), None, page_count + 1, FALSE)

get_all_data(endpoint, pages) == get_all_pages(endpoint, pages, 0, <<>>)

-----------------------------------------------------------------------------
(* Middleware and decorators *)

\* Mutant: DELETE is missing from the methods check_csrf looks at.
check_csrf_SkipsDelete(method, sess, header) ==
    /\ method \in {"POST", "PATCH"}
    /\ (sess.csrf = NoToken \/ sess.csrf # header)

\* check_csrf: TRUE when the request is answered 400 before its route runs
check_csrf(method, sess, header) ==
    /\ method \in {"POST", "DELETE", "PATCH"}
    /\ (sess.csrf = NoToken \/ sess.csrf # header)

\* session['login_time'] = datetime.now().isoformat(), read back with
\* datetime.fromisoformat
isoformat(t) == <<"iso", t>>
fromisoformat(x) == x[2]

\* Mutant: the age of the session is not looked at.
login_required_NoTimeout(sess, t, tok) ==
    IF ~sess.logged_in
    THEN [pass |-> FALSE, session |-> sess]
    ELSE [pass |-> TRUE,
          session |-> [sess EXCEPT !.login_time = isoformat(t),
                                   !.csrf = IF @ = NoToken THEN tok ELSE @]]

\* login_required at time t; tok is the value secrets.token_hex(16) would give
login_required(sess, t, tok) ==
    IF ~sess.logged_in
    THEN [pass |-> FALSE, session |-> sess]
    ELSE IF /\ sess.login_time # NoLoginTime
            /\ t - fromisoformat(sess.login_time) > SESSION_TIMEOUT
    THEN [pass |-> FALSE, session |-> EmptySession]
    ELSE [pass |-> TRUE,
          session |-> [sess EXCEPT !.login_time = isoformat(t),
                                   !.csrf = IF @ = NoToken THEN tok ELSE @]]

\* [t for t in request_times[client_ip] if current_time - t < per]
Prune(times, current_time, per) ==
    SelectSeq(times, LAMBDA t : current_time - t < per)

\* Mutant: the comparison of line 222 off by one (> for >=).
BelowLimit_OffByOne(times, limit) == ~(Len(times) > limit)

\* not (len(request_times[client_ip]) >= limit)
BelowLimit(times, limit) == ~(Len(times) >= limit)

\* Mutant: the timestamp is appended before the length check, so a rejected
\* request is recorded too.
rate_limit_RecordsRejected(rt, client_ip, current_time, limit, per) ==
    LET rt1 == IF client_ip \notin DOMAIN rt THEN (client_ip :> <<>>) @@ rt ELSE rt
        rt2 == [rt1 EXCEPT ![client_ip] = Prune(@, current_time, per)]
    IN  [admit |-> BelowLimit(rt2[client_ip], limit),
         request_times |-> [rt2 EXCEPT ![client_ip] = Append(@, current_time)]]

\* Mutant: the decorator's limit argument is ignored for its default.
rate_limit_DefaultLimit(rt, client_ip, current_time, limit, per) ==
    LET rt1 == IF client_ip \notin DOMAIN rt THEN (client_ip :> <<>>) @@ rt ELSE rt
        rt2 == [rt1 EXCEPT ![client_ip] = Prune(@, current_time, per)]
    IN  IF BelowLimit(rt2[client_ip], LimitDefault)
        THEN [admit |-> TRUE,
              request_times |-> [rt2 EXCEPT ![client_ip] = Append(@, current_time)]]
        ELSE [admit |-> FALSE, request_times |-> rt2]

\* Mutant: the lists of all clients are pruned, not only the caller's.
rate_limit_PrunesAllClients(rt, client_ip, current_time, limit, per) ==
    LET rt1 == IF client_ip \notin DOMAIN rt THEN (client_ip :> <<>>) @@ rt ELSE rt
        rt2 == [k \in DOMAIN rt1 |-> Prune(rt1[k], current_time, per)]
        admit == BelowLimit(rt2[client_ip], limit)
    IN  [admit |-> admit,
         request_times |-> IF admit
                           THEN [rt2 EXCEPT ![client_ip] = Append(@, current_time)]
                           ELSE rt2]

\* rate_limit(limit, per).wrapped up to the call of f: the request of
\* client_ip at current_time is admitted or not, and request_times afterwards
rate_limit(rt, client_ip, current_time, limit, per) ==
    LET rt1 == IF client_ip \notin DOMAIN rt THEN (client_ip :> <<>>) @@ rt ELSE rt
        rt2 == [rt1 EXCEPT ![client_ip] = Prune(@, current_time, per)]
    IN  IF BelowLimit(rt2[client_ip], limit)
        THEN [admit |-> TRUE,
              request_times |-> [rt2 EXCEPT ![client_ip] = Append(@, current_time)]]
        ELSE [admit |-> FALSE, request_times |-> rt2]

-----------------------------------------------------------------------------
(* Utility functions *)

\* validate_uuid: the uuids are abstract; these match the pattern
ValidUUIDs == {"uuid-1"}
validate_uuid(uuid_string) == uuid_string \in ValidUUIDs

\* sanitize_input: drop the characters < > " ' and cut to max_length
sanitize_input(input_str, max_length) ==
    LET kept == SelectSeq(input_str, LAMBDA ch : ch \notin {"<", ">", "\"", "'"})
    IN  IF Len(kept) > max_length THEN SubSeq(kept, 1, max_length) ELSE kept

\* The characters of a sanitized query as one JSON string value
RECURSIVE JsonString(_)
JsonString(chars) ==
    IF chars = <<>> THEN "" ELSE Head(chars) \o JsonString(Tail(chars))

-----------------------------------------------------------------------------
(* Requests and responses *)

\* The response of a route handler and what running it did: the HTTP status,
\* the kind of body ("json", "html", "redirect", or "fault" for the 500 page
\* Flask makes of an uncaught exception), the error message and the data in
\* the body, the upstream requests issued (calls, and how each ended), whether
\* the data came from the cache, and the cache afterwards.
Handled(status, kind, error, data, calls, hit, outcomes, c) ==
    [status |-> status, kind |-> kind, error |-> error, data |-> data,
     calls |-> calls, hit |-> hit, outcomes |-> outcomes, statuses |-> <<>>,
     cache |-> c]

\* The same with response.status_code of each upstream request issued (0 when
\* the request got no response).
WithStatuses(h, statuses) == [h EXCEPT !.statuses = statuses]

NoReply ==
    [ip |-> None, route |-> None, method |-> None, req |-> NoReq, stage |-> None,
     status |-> 0, kind |-> None, error |-> None, data |-> <<>>,
     calls |-> 0, hit |-> FALSE, outcomes |-> <<>>, statuses |-> <<>>,
     had_entry |-> FALSE, host |-> None, header |-> NoToken, form |-> <<>>,
     sent |-> {}, token |-> NoToken]

Reply(ip, route, method, req, stage, h) ==
    [ip |-> ip, route |-> route, method |-> method, req |-> req, stage |-> stage,
     status |-> h.status, kind |-> h.kind, error |-> h.error, data |-> h.data,
     calls |-> h.calls, hit |-> h.hit, outcomes |-> h.outcomes,
     statuses |-> h.statuses,
     had_entry |-> req # NoReq /\ _get_cache_key(req[1], req[2]) \in DOMAIN cache,
     host |-> None, header |-> NoToken, form |-> <<>>, sent |-> {}, token |-> NoToken]

\* jsonify({"error": "CSRF token mismatch"}), 400
CsrfRejected == Handled(400, "json", "CSRF token mismatch", <<>>, 0, FALSE, <<>>, cache)
\* redirect('/login')
LoginRedirect == Handled(302, "redirect", None, <<>>, 0, FALSE, <<>>, cache)
\* jsonify({"error": "Rate limit exceeded"}), 429
RateRejected == Handled(429, "json", "Rate limit exceeded", <<>>, 0, FALSE, <<>>, cache)

\* Mutant: the rate limiter runs the handler and then answers 429.
Effect_HandlerBeforeRateCheck(stage, h) ==
    CASE stage = "csrf" -> CsrfRejected
      [] stage = "login" -> LoginRedirect
      [] stage = "rate" -> [h EXCEPT !.status = 429]
      [] OTHER -> h

\* What the request does at the stage it got to: check_csrf, login_required
\* and rate_limit.wrapped return their own response without calling the route
\* handler, whose effect is h.
Effect(stage, h) ==
    CASE stage = "csrf" -> CsrfRejected
      [] stage = "login" -> LoginRedirect
      [] stage = "rate" -> RateRejected
      [] OTHER -> h

\* request.headers: the headers of the inbound request, as (name, value)
\* pairs
InboundHeaders(host, header) ==
    {<<"Host", host>>}
    \cup (IF header # NoToken THEN {<<"X-CSRF-Token", header>>} ELSE {})

\* self.headers, set once in PterodactylAPI.__init__
api_headers ==
    {<<"Authorization", "Bearer API_KEY">>,
     <<"Accept", "Application/vnd.pterodactyl.v1+json">>,
     <<"Content-Type", "application/json">>}

\* Mutant: the headers of the inbound request are passed on with the panel's.
UpstreamHeaders_ForwardInbound(inbound) == api_headers \cup inbound

\* The headers= argument of requests.request / requests.get while the
\* request with the headers inbound is handled: self.headers
UpstreamHeaders(inbound) == api_headers

\* The tokens secrets.token_hex(16) may give login_required for this session
\* (it draws one only for a logged-in session that has none).
NewTokens(sess) ==
    IF sess.logged_in /\ sess.csrf = NoToken THEN Tokens ELSE {NoToken}

\* The admissions of one client that lie in the window ending at time t.
InWindow(times, t) == SelectSeq(times, LAMBDA x : t - x < Per)

\* One request of the client at ip, with Host header host, to a route behind
\* login_required and,
\* when limited, rate_limit(limit, Per): check_csrf, then login_required,
\* then rate_limit.wrapped, then the handler.  The request presents the cookie
\* the client holds; check_csrf and login_required work on the request's own
\* session, and the cookie changes with the response (Flask's save_session:
\* Set-Cookie when the session was modified).  A handler that answers at once
\* has the effect h and leaves the worker threads as they are; a handler that
\* waits for the panel (waits) leaves the request and its session with worker
\* thread w, in state th, and answers later.
ServeWith(ip, host, route, method, req, header, limited, limit, h, w, th, waits) ==
    \E tok \in NewTokens(session[ip]) :
    LET sess == session[ip]
        blocked == check_csrf(method, sess, header)
        lr == login_required(sess, now, tok)
        rl == rate_limit(request_times, ip, now, limit, Per)
        stage == IF blocked THEN "csrf"
                 ELSE IF ~lr.pass THEN "login"
                 ELSE IF limited /\ ~rl.admit THEN "rate"
                 ELSE "handler"
        ran == stage = "handler"
        did == Effect(stage, h)
    IN  /\ last = NoReply
        /\ session' = IF blocked \/ (ran /\ waits)
                      THEN session
                      ELSE [session EXCEPT ![ip] = lr.session]
        /\ request_times' = IF limited /\ stage \in {"rate", "handler"}
                            THEN rl.request_times
                            ELSE request_times
        /\ admitted' = IF limited /\ ran
                       THEN [admitted EXCEPT ![ip] = Append(InWindow(@, now), now)]
                       ELSE admitted
        /\ cache' = did.cache
        /\ threads' = IF ran /\ waits
                      THEN [threads EXCEPT ![w] = [th EXCEPT !.session = lr.session]]
                      ELSE threads
        /\ last' = IF ran /\ waits
                   THEN NoReply
                   ELSE [Reply(ip, route, method, req, stage, did) EXCEPT
                            !.host = host,
                            !.header = header,
                            !.sent = IF did.calls > 0
                                     THEN {UpstreamHeaders(InboundHeaders(host, header))}
                                     ELSE {}]
        /\ rejected' = IF limited /\ stage \in {"rate", "handler"}
                       THEN [rejected EXCEPT ![ip] = (stage = "rate")]
                       ELSE rejected
        /\ logins' = IF stage \in {"rate", "handler"}
                     THEN [logins EXCEPT ![ip].seen = now]
                     ELSE IF stage = "login" /\ sess.logged_in
                     THEN [logins EXCEPT ![ip].expired = TRUE]
                     ELSE logins
        /\ UNCHANGED <<now, login_attempts, blocked_ips, stored, document>>

\* A request to a route whose handler answers at once: it makes no upstream
\* request (dashboard, and the 400 answers of server_action and handle_users)
Serve(ip, host, route, method, req, header, limited, limit, h) ==
    ServeWith(ip, host, route, method, req, header, limited, limit, h, None, IdleThread,
              FALSE)

\* Worker thread w is at statement pc / goes on to statement pc.
ThreadAt(w, pc) == threads[w].pc = pc

Goto(w, pc) == threads' = [threads EXCEPT ![w].pc = pc]

\* No answer yet: the handler has been called and waits for the panel.
Pending == Handled(0, None, None, <<>>, 0, FALSE, <<>>, cache)

\* A worker thread in the handler of a route, waiting in requests.request
\* (line 115) or requests.get (line 166) for the panel: current_time is the
\* time.time() of rate_limit.wrapped (line 216), req what it asks the panel
\* for, got the answers the panel gave to the upstream requests this handler
\* made before, session the request's own session (as login_required leaves
\* it), which its response will carry.
Waiting(ip, host, route, method, header, req) ==
    [pc |-> "panel", ip |-> ip, host |-> host, route |-> route, method |-> method,
     header |-> header, current_time |-> now, req |-> req, got |-> <<>>,
     session |-> EmptySession]

\* A request to a route behind login_required and rate_limit(limit, Per) whose
\* handler makes the upstream requests reqs one after the other, the panel
\* answering them with answers, and then answers h.  It is three kinds of
\* step of worker thread w:
\*   the request up to the first upstream request (check_csrf, the
\*     decorators, the handler as far as line 115 or 166), where the thread
\*     starts to wait: admitted, not answered;
\*   the panel's answer to an upstream request that is not the last, and the
\*     handler as far as its next upstream request;
\*   the panel's answer to the last upstream request, and the handler's
\*     answer h to the client, which carries the request's session: it
\*     replaces the cookie the client holds, whatever that has become.
\* Time passes and other requests are served while the thread waits.
PanelCall(w, ip, host, route, method, header, limit, reqs, answers, h) ==
    LET th == threads[w]
        n == Len(answers)
        mine == /\ th.pc = "panel"
                /\ th.ip = ip /\ th.host = host /\ th.route = route
                /\ th.method = method /\ th.header = header
                /\ Len(th.got) < n
                /\ th.got = SubSeq(answers, 1, Len(th.got))
                /\ th.req = reqs[Len(th.got) + 1]
    IN  \/ /\ th.pc = "idle"
           /\ ServeWith(ip, host, route, method, NoReq, header, TRUE, limit, Pending,
                        w, Waiting(ip, host, route, method, header, reqs[1]), TRUE)
        \/ /\ mine
           /\ Len(th.got) + 1 < n
           /\ threads' = [threads EXCEPT ![w].got = Append(@, answers[Len(@) + 1]),
                                         ![w].req = reqs[Len(th.got) + 2]]
           /\ UNCHANGED <<now, request_times, cache, session, login_attempts,
                          blocked_ips, admitted, stored, rejected, last, document,
                          logins>>
        \/ /\ mine
           /\ Len(th.got) + 1 = n
           /\ last = NoReply
           /\ last' = [Reply(ip, route, method, NoReq, "returned", h) EXCEPT
                           !.host = host,
                           !.header = header,
                           !.sent = IF h.calls > 0
                                    THEN {UpstreamHeaders(InboundHeaders(host, header))}
                                    ELSE {}]
           /\ cache' = h.cache
           /\ session' = [session EXCEPT ![ip] = th.session]
           /\ threads' = [threads EXCEPT ![w] = IdleThread]
           /\ UNCHANGED <<now, request_times, login_attempts, blocked_ips,
                          admitted, stored, rejected, document, logins>>

-----------------------------------------------------------------------------
(* API routes *)

StatusReq == <<"servers?per_page=1", NoParams>>
UsersStatReq == <<"users?per_page=1", NoParams>>
NodesStatReq == <<"nodes?per_page=1", NoParams>>

\* `if error:` / `not s_err`: None and the empty string count as no error.
Truthy(error) == error \notin {None, ""}

\* Mutant: an error is answered with the status the panel gave (502 when it
\* gave none).
ErrorOr_PassThrough(res, status, data) ==
    WithStatuses(
        IF Truthy(res.error)
        THEN Handled(IF res.status_code # 0 THEN res.status_code ELSE 502, "json",
                     res.error, <<>>, res.calls, res.hit, <<res.outcome>>, res.cache)
        ELSE Handled(status, "json", None, data, res.calls, res.hit, <<res.outcome>>, res.cache),
        <<res.status_code>>)

\* The handler's answer to the pair (result, error) of one _request call:
\* `if error: return jsonify({"error": error}), 500`, else the answer with
\* data, which holds None when the call failed with an error that is not
\* truthy.
ErrorOr(res, status, data) ==
    WithStatuses(
        IF Truthy(res.error)
        THEN Handled(500, "json", res.error, <<>>, res.calls, res.hit, <<res.outcome>>, res.cache)
        ELSE Handled(status, "json", None, data, res.calls, res.hit, <<res.outcome>>, res.cache),
        <<res.status_code>>)

\* The limit each route gives to rate_limit (the model's scaled values).
LimitedRoutes ==
    {"api_status", "get_stats", "get_servers", "server_action", "handle_users",
     "delete_user", "get_nodes"}

RouteLimit(route) ==
    CASE route = "get_stats" -> LimitStats
      [] route \in {"api_status", "server_action"} -> LimitStatus
      [] OTHER -> LimitDefault

\* @app.route('/api/status') @login_required @rate_limit(10, 60)
api_status(w, ip, host, r) ==
    LET res == _request(cache, now, StatusReq[1], "GET", NoParams, FALSE, r)
    IN  PanelCall(w, ip, host, "api_status", "GET", NoToken, LimitStatus,
                  <<StatusReq>>, <<r>>, ErrorOr(res, 200, <<>>))

\* data['meta']['pagination']['total'] raises KeyError on a body without
\* 'meta', TypeError on None (the result of a failed call)
LacksTotal(body) == body.shape \in {"empty", "nometa", "none"}

\* @app.route('/api/stats') @login_required @rate_limit(5, 60)
get_stats(w, ip, host, r1, r2, r3) ==
    LET s == _request(cache, now, StatusReq[1], "GET", NoParams, FALSE, r1)
        u == _request(s.cache, now, UsersStatReq[1], "GET", NoParams, FALSE, r2)
        n == _request(u.cache, now, NodesStatReq[1], "GET", NoParams, FALSE, r3)
        all == <<s, u, n>>
        KeyError == \E i \in 1..3 : ~Truthy(all[i].error) /\ LacksTotal(all[i].result)
        stats == [i \in 1..3 |-> IF ~Truthy(all[i].error) THEN all[i].result ELSE NABody]
        outcomes == [i \in 1..3 |-> all[i].outcome]
        calls == s.calls + u.calls + n.calls
    IN  PanelCall(w, ip, host, "get_stats", "GET", NoToken, LimitStats,
                  <<StatusReq, UsersStatReq, NodesStatReq>>, <<r1, r2, r3>>,
                  WithStatuses(
                      IF KeyError
                      THEN Handled(500, "fault", None, <<>>, calls, FALSE, outcomes, n.cache)
                      ELSE Handled(200, "json", None, stats, calls, FALSE, outcomes, n.cache),
                      [i \in 1..3 |-> all[i].status_code]))

\* params of get_servers for ?page=..&q=..&suspended=..
ServersParams(page, q, suspended) ==
    LET query == sanitize_input(q, 255)
    IN  {<<"page", page>>, <<"per_page", "10">>}
        \cup (IF query # <<>> THEN {<<"filter[name]", JsonString(query)>>} ELSE {})
        \cup (IF suspended \in {"true", "false"}
              THEN {<<"filter[suspended]", suspended>>}
              ELSE {})

ServersReq(page, q, suspended) == <<"servers", ServersParams(page, q, suspended)>>

\* A worker thread in get_paged_data('servers', params), that is in _request
\* with method GET and use_cache, at line 107: req is what it asks the panel
\* for, had_entry whether the cache held an entry for it (history), result,
\* error, outcome and status_code what _request is about to return and how
\* the upstream request ended, timestamp the time.time() of line 127, wrote
\* the entry it assigned to the cache, if any.
Fetching(ip, host, req) ==
    [pc |-> "in", ip |-> ip, host |-> host, req |-> req, had_entry |-> FALSE,
     result |-> NoBody, error |-> None, outcome |-> None, status_code |-> 0,
     timestamp |-> 0, wrote |-> <<>>, session |-> EmptySession]

\* @app.route('/api/servers') @login_required @rate_limit(): the request up
\* to the call of get_paged_data (line 940), which worker thread w goes on
\* with (c_in ... c_return): it waits for the panel there, and other
\* requests are served meanwhile.
get_servers(w, ip, host, page, q, suspended) ==
    LET req == ServersReq(page, q, suspended)
    IN  /\ threads[w].pc = "idle"
        /\ ServeWith(ip, host, "get_servers", "GET", req, NoToken, TRUE, LimitDefault,
                     Pending, w, Fetching(ip, host, req), TRUE)

KeyOf(w) == _get_cache_key(threads[w].req[1], threads[w].req[2])

FetchUnchanged ==
    <<request_times, login_attempts, blocked_ips, admitted, rejected, document, logins>>

\* line 102: if cache_key not in self.cache: return False
c_in(w) ==
    /\ ThreadAt(w, "in")
    /\ threads' = [threads EXCEPT ![w] =
                      IF KeyOf(w) \notin DOMAIN cache
                      THEN [@ EXCEPT !.pc = "fetch"]
                      ELSE [@ EXCEPT !.pc = "stamp", !.had_entry = TRUE]]
    /\ UNCHANGED <<now, cache, session, stored, last>>
    /\ UNCHANGED FetchUnchanged

\* line 104: time.time() - self.cache[cache_key]['timestamp'] < self.cache_timeout
\* (KeyError if the entry is gone)
c_stamp(w) ==
    /\ ThreadAt(w, "stamp")
    /\ threads' = [threads EXCEPT ![w].pc =
                      IF KeyOf(w) \notin DOMAIN cache THEN "fault"
                      ELSE IF _is_cache_valid(cache, now, KeyOf(w))
                      THEN "read"
                      ELSE "fetch"]
    /\ UNCHANGED <<now, cache, session, stored, last>>
    /\ UNCHANGED FetchUnchanged

\* line 111: return self.cache[cache_key]['data'], None
c_read(w) ==
    /\ ThreadAt(w, "read")
    /\ threads' = [threads EXCEPT ![w] =
                      IF KeyOf(w) \notin DOMAIN cache
                      THEN [@ EXCEPT !.pc = "fault"]
                      ELSE [@ EXCEPT !.pc = "done", !.result = cache[KeyOf(w)].data,
                                     !.outcome = "cache"]]
    /\ UNCHANGED <<now, cache, session, stored, last>>
    /\ UNCHANGED FetchUnchanged

\* lines 115-121 and the except branches: the upstream request, answered r
c_fetch(w, r) ==
    /\ ThreadAt(w, "fetch")
    /\ threads' = [threads EXCEPT ![w] =
                      [@ EXCEPT !.pc = IF r.kind \in {"ok", "empty"} THEN "store" ELSE "done",
                                !.result = CASE r.kind = "ok" -> r.body
                                             [] r.kind = "empty" -> EmptyBody
                                             [] OTHER -> NoBody,
                                !.error = ErrorMsg(r),
                                !.outcome = r.kind,
                                !.status_code = r.status]]
    /\ UNCHANGED <<now, cache, session, stored, last>>
    /\ UNCHANGED FetchUnchanged

\* lines 126-127: the dict {'data': result, 'timestamp': time.time()} is
\* built before it is assigned
c_clock(w) ==
    /\ ThreadAt(w, "store")
    /\ threads' = [threads EXCEPT ![w].pc = "assign", ![w].timestamp = now]
    /\ UNCHANGED <<now, cache, session, stored, last>>
    /\ UNCHANGED FetchUnchanged

\* line 125: self.cache[cache_key] = the dict
c_store(w) ==
    /\ ThreadAt(w, "assign")
    /\ cache' = CacheStore(cache, KeyOf(w), threads[w].result, threads[w].timestamp)
    /\ stored' = (threads[w].req :> [data |-> threads[w].result,
                                     timestamp |-> threads[w].timestamp]) @@ stored
    /\ threads' = [threads EXCEPT ![w] =
                      [@ EXCEPT !.pc = "done",
                                !.wrote = <<[data |-> threads[w].result,
                                             timestamp |-> threads[w].timestamp]>>]]
    /\ UNCHANGED <<now, session, last>>
    /\ UNCHANGED FetchUnchanged

\* _request returns (lines 111, 118, 130, 134, 144, 147), get_servers answers
\* (lines 941-943) with the request's session for the client's cookie, and
\* the thread is free for the next request
c_return(w) ==
    LET th == threads[w]
        hit == th.outcome = "cache"
        res == [result |-> th.result, error |-> th.error, cache |-> cache,
                calls |-> IF hit THEN 0 ELSE 1, hit |-> hit, outcome |-> th.outcome,
                status_code |-> th.status_code]
        h == ErrorOr(res, 200, <<res.result>>)
    IN  /\ ThreadAt(w, "done")
        /\ last = NoReply
        /\ last' = [Reply(th.ip, "get_servers", "GET", th.req, "returned", h) EXCEPT
                        !.host = th.host,
                        !.had_entry = th.had_entry,
                        !.sent = IF h.calls > 0
                                 THEN {UpstreamHeaders(InboundHeaders(th.host, NoToken))}
                                 ELSE {}]
        /\ session' = [session EXCEPT ![th.ip] = th.session]
        /\ threads' = [threads EXCEPT ![w] = IdleThread]
        /\ UNCHANGED <<now, cache, stored>>
        /\ UNCHANGED FetchUnchanged

\* get_paged_data('servers', params) in worker thread w, one statement of
\* _request at a time; answers are those the panel may give to its request
get_paged_data(w, answers) ==
    \/ c_in(w)
    \/ c_stamp(w)
    \/ c_read(w)
    \/ \E r \in answers : c_fetch(w, r)
    \/ c_clock(w)
    \/ c_store(w)
    \/ c_return(w)

\* No request is waiting for the panel.
Quiet == \A w \in Workers : threads[w].pc = "idle"

BadRequest(msg) == Handled(400, "json", msg, <<>>, 0, FALSE, <<>>, cache)

\* @app.route('/api/server/<uuid>/<action>', methods=['POST'])
\* @login_required @rate_limit(10, 60)
server_action(w, ip, host, header, uuid, action, signal, r) ==
    LET power_req == <<"servers/" \o uuid \o "/power", NoParams>>
        delete_req == <<"servers/" \o uuid, NoParams>>
        power == _request(cache, now, power_req[1], "POST", NoParams, FALSE, r)
        delete == _request(cache, now, delete_req[1], "DELETE", NoParams, FALSE, r)
        \* `data or {}`
        OrEmpty(data) == IF data = NoBody THEN EmptyBody ELSE data
        Refuse(msg) == Serve(ip, host, "server_action", "POST", NoReq, header, TRUE,
                             LimitStatus, BadRequest(msg))
        Call(req, res) == PanelCall(w, ip, host, "server_action", "POST", header,
                                    LimitStatus, <<req>>, <<r>>,
                                    ErrorOr(res, 200, <<OrEmpty(res.result)>>))
    IN  IF ~validate_uuid(uuid) THEN Refuse("Invalid server UUID")
        ELSE IF action = "power"
        THEN IF signal \notin {"start", "stop", "restart", "kill"}
             THEN Refuse("Invalid power action")
             ELSE Call(power_req, power)
        ELSE IF action = "delete"
        THEN Call(delete_req, delete)
        ELSE Refuse("Invalid action")

\* The answer to get_all_data's (result, error), or to its KeyError.
AllDataOr(res, pages) ==
    LET outcomes == [i \in 1..res.calls |-> pages[i].kind]
    IN  WithStatuses(
            IF res.fault
            THEN Handled(500, "fault", None, <<>>, res.calls, FALSE, outcomes, cache)
            ELSE IF Truthy(res.error)
            THEN Handled(500, "json", res.error, <<>>, res.calls, FALSE, outcomes, cache)
            ELSE Handled(200, "json", None, res.result, res.calls, FALSE, outcomes, cache),
            [i \in 1..res.calls |-> pages[i].status])

\* The upstream requests of get_all_data(endpoint) that the panel answers
\* with pages: the first one with params {'per_page': 100}, each later one to
\* the 'next' link of the page before, without params (line 172).
PageReqs(endpoint, pages) ==
    [i \in 1..Len(pages) |->
        IF i = 1 THEN <<endpoint, {<<"per_page", "100">>}>> ELSE <<endpoint \o " next", NoParams>>]

\* request.json of POST /api/users
UserDatas == {"complete", "missing_keys", "invalid_email"}

\* @app.route('/api/users', methods=['GET', 'POST']) @login_required @rate_limit()
handle_users(w, ip, host, method, header, user_data, r, pages) ==
    LET created == _request(cache, now, "users", "POST", NoParams, FALSE, r)
        Refuse(msg) == Serve(ip, host, "handle_users", method, NoReq, header, TRUE,
                             LimitDefault, BadRequest(msg))
    IN  IF method = "POST"
        THEN IF user_data = "missing_keys"
             THEN Refuse("Missing required user fields")
             ELSE IF user_data = "invalid_email"
             THEN Refuse("Invalid email format")
             ELSE PanelCall(w, ip, host, "handle_users", method, header, LimitDefault,
                            <<<<"users", NoParams>>>>, <<r>>,
                            ErrorOr(created, 201, <<created.result>>))
        ELSE PanelCall(w, ip, host, "handle_users", method, header, LimitDefault,
                       PageReqs("users", pages), pages,
                       AllDataOr(get_all_data("users", pages), pages))

\* @app.route('/api/users/<int:user_id>', methods=['DELETE'])
\* @login_required @rate_limit()
delete_user(w, ip, host, header, user_id, r) ==
    LET req == <<"users/" \o user_id, NoParams>>
        res == _request(cache, now, req[1], "DELETE", NoParams, FALSE, r)
    IN  PanelCall(w, ip, host, "delete_user", "DELETE", header, LimitDefault,
                  <<req>>, <<r>>, ErrorOr(res, 200, <<>>))

\* @app.route('/api/nodes') @login_required @rate_limit()
get_nodes(w, ip, host, pages) ==
    PanelCall(w, ip, host, "get_nodes", "GET", NoToken, LimitDefault,
              PageReqs("nodes", pages), pages,
              AllDataOr(get_all_data("nodes", pages), pages))

\* @app.route('/') @login_required
dashboard(ip, host) ==
    Serve(ip, host, "dashboard", "GET", NoReq, NoToken, FALSE, 0,
          Handled(200, "html", None, <<>>, 0, FALSE, <<>>, cache))

\* A PATCH request to /api/users, whose route has methods=['GET', 'POST']:
\* check_csrf runs before the request is dispatched, and dispatching it
\* answers 405 Method Not Allowed without calling handle_users.
patch_users(ip, host, header) ==
    LET blocked == check_csrf("PATCH", session[ip], header)
    IN  /\ last = NoReply
        /\ last' = [Reply(ip, "handle_users", "PATCH", NoReq,
                          IF blocked THEN "csrf" ELSE "routing",
                          IF blocked THEN CsrfRejected
                          ELSE Handled(405, "html", None, <<>>, 0, FALSE, <<>>, cache))
                    EXCEPT !.host = host, !.header = header]
        /\ UNCHANGED <<now, request_times, cache, session, login_attempts, blocked_ips,
                       admitted, stored, rejected, threads, document, logins>>

-----------------------------------------------------------------------------
(* Login and logout *)

\* Config.MAX_LOGIN_ATTEMPTS
MAX_LOGIN_ATTEMPTS == 5
\* timedelta(minutes=15), timedelta(minutes=30)
AttemptWindow == 900
BlockTime == 1800

ADMIN_USERNAME == "admin"
ADMIN_PASSWORD == "secret"
Passwords == {ADMIN_PASSWORD, "wrong"}

\* is_ip_blocked(ip) at time t: the answer and blocked_ips afterwards
is_ip_blocked(blocked, ip, t) ==
    IF ip \in DOMAIN blocked
    THEN IF t < blocked[ip]
         THEN [blocked |-> TRUE, blocked_ips |-> blocked]
         ELSE [blocked |-> FALSE,
               blocked_ips |-> [k \in DOMAIN blocked \ {ip} |-> blocked[k]]]
    ELSE [blocked |-> FALSE, blocked_ips |-> blocked]

\* Mutant: the old attempts are not cleaned (lines 73-74 missing).
add_login_attempt_NoPrune(attempts, blocked, ip, current_time) ==
    LET old == IF ip \in DOMAIN attempts THEN attempts[ip] ELSE <<>>
        new == (ip :> Append(old, current_time)) @@ attempts
    IN  IF Len(new[ip]) >= MAX_LOGIN_ATTEMPTS
        THEN [blocked |-> TRUE, login_attempts |-> new,
              blocked_ips |-> (ip :> (current_time + BlockTime)) @@ blocked]
        ELSE [blocked |-> FALSE, login_attempts |-> new, blocked_ips |-> blocked]

\* add_login_attempt(ip) at current_time: the answer, login_attempts and
\* blocked_ips afterwards
add_login_attempt(attempts, blocked, ip, current_time) ==
    LET old == IF ip \in DOMAIN attempts THEN attempts[ip] ELSE <<>>
        kept == SelectSeq(old, LAMBDA attempt : current_time - attempt < AttemptWindow)
        new == (ip :> Append(kept, current_time)) @@ attempts
    IN  IF Len(new[ip]) >= MAX_LOGIN_ATTEMPTS
        THEN [blocked |-> TRUE, login_attempts |-> new,
              blocked_ips |-> (ip :> (current_time + BlockTime)) @@ blocked]
        ELSE [blocked |-> FALSE, login_attempts |-> new, blocked_ips |-> blocked]

\* History: the client made a failed login attempt at time t, which is the
\* MAX_LOGIN_ATTEMPTS-th within AttemptWindow if until is set to t + BlockTime.
FailedLogin(l, t) ==
    LET recent == SelectSeq(l.failed, LAMBDA x : t - x < AttemptWindow)
    IN  [l EXCEPT !.failed = Append(recent, t),
                  !.until = IF Len(recent) + 1 >= MAX_LOGIN_ATTEMPTS
                            THEN t + BlockTime ELSE @]

\* The view function login() of @app.route('/login', methods=['GET', 'POST']),
\* called for a request check_csrf did not answer.  header is the request's
\* X-CSRF-Token, which the view does not read.
login_view(ip, method, header, username, password, tok) ==
    LET sess == session[ip]
        blk == is_ip_blocked(blocked_ips, ip, now)
        valid == username = ADMIN_USERNAME /\ password = ADMIN_PASSWORD
        att == add_login_attempt(login_attempts, blk.blocked_ips, ip, now)
        stage == IF sess.logged_in THEN "logged_in"
                 ELSE IF blk.blocked THEN "blocked"
                 ELSE IF method = "POST" THEN (IF valid THEN "success" ELSE "failed")
                 ELSE "form"
    IN  /\ last = NoReply
        /\ session' = IF stage = "success"
                      THEN [session EXCEPT ![ip] =
                               [logged_in |-> TRUE, login_time |-> isoformat(now),
                                csrf |-> tok]]
                      ELSE session
        /\ blocked_ips' = IF stage = "logged_in" THEN blocked_ips
                          ELSE IF stage = "failed" THEN att.blocked_ips
                          ELSE blk.blocked_ips
        /\ login_attempts' = IF stage = "failed" THEN att.login_attempts
                             ELSE login_attempts
        /\ logins' = IF stage = "failed"
                     THEN [logins EXCEPT ![ip] = FailedLogin(@, now)]
                     ELSE IF stage = "success"
                     THEN [logins EXCEPT ![ip].seen = now, ![ip].expired = FALSE]
                     ELSE logins
        /\ last' = [Reply(ip, "login", method, NoReq, stage,
                         CASE stage \in {"logged_in", "success"} ->
                                Handled(302, "redirect", None, <<>>, 0, FALSE, <<>>, cache)
                           [] stage = "blocked" ->
                                Handled(429, "html", None, <<>>, 0, FALSE, <<>>, cache)
                           [] stage = "failed" ->
                                Handled(401, "html", None, <<>>, 0, FALSE, <<>>, cache)
                           [] OTHER ->
                                Handled(200, "html", None, <<>>, 0, FALSE, <<>>, cache))
                    EXCEPT !.header = header,
                           !.form = IF method = "POST" THEN <<username, password>> ELSE <<>>,
                           !.token = IF stage = "success" THEN tok ELSE NoToken]
        /\ UNCHANGED <<now, request_times, cache, admitted, stored, rejected, threads,
                       document>>

\* A request to /login: check_csrf (before_request, lines 877-882), then the
\* view.  The history counts as a failed login attempt a POST with wrong
\* credentials of a client that is neither logged in nor locked out, whether
\* the view gets to see it or not.
login(ip, method, header, username, password, tok) ==
    IF check_csrf(method, session[ip], header)
    THEN /\ last = NoReply
         /\ last' = [Reply(ip, "login", method, NoReq, "csrf", CsrfRejected)
                     EXCEPT !.header = header, !.form = <<username, password>>]
         /\ logins' = IF /\ ~session[ip].logged_in
                         /\ now >= logins[ip].until
                         /\ ~(username = ADMIN_USERNAME /\ password = ADMIN_PASSWORD)
                      THEN [logins EXCEPT ![ip] = FailedLogin(@, now)]
                      ELSE logins
         /\ UNCHANGED <<now, request_times, cache, session, login_attempts, blocked_ips,
                        admitted, stored, rejected, threads, document>>
    ELSE login_view(ip, method, header, username, password, tok)

\* @app.route('/logout'): session.clear()
logout(ip) ==
    /\ last = NoReply
    /\ session' = [session EXCEPT ![ip] = EmptySession]
    /\ UNCHANGED logins
    /\ last' = Reply(ip, "logout", "GET", NoReq, "handler",
                     Handled(302, "redirect", None, <<>>, 0, FALSE, <<>>, cache))
    /\ UNCHANGED <<now, request_times, cache, login_attempts, blocked_ips,
                   admitted, stored, rejected, threads, document>>

\* @app.after_request add_security_headers: the response leaves the server.
add_security_headers ==
    /\ last # NoReply
    /\ last' = NoReply
    /\ UNCHANGED <<now, request_times, cache, session, login_attempts, blocked_ips,
                   admitted, stored, rejected, threads, document, logins>>

-----------------------------------------------------------------------------
(* The clock *)

Tick ==
    /\ last = NoReply
    /\ now + TickStep <= MaxTime
    /\ now' = now + TickStep
    /\ UNCHANGED <<request_times, cache, session, login_attempts, blocked_ips,
                   admitted, stored, rejected, last, threads, document, logins>>

-----------------------------------------------------------------------------
(* Initial state *)

\* No failed login so far; a session that is logged in logged in at time 0.
NoLogins ==
    [ip \in IPs |-> [failed |-> <<>>, until |-> 0, seen |-> 0, expired |-> FALSE]]

\* No document: the dashboard of src/app.py rewrites none.
NoPage == [base_url |-> <<>>, original |-> <<>>, html |-> <<>>, passes |-> 0]

\* The process starts with empty tables.  The session lives in a cookie
\* signed with SECRET_KEY, which outlives the process when SECRET_KEY is
\* configured: a client starts either without a session or with one as
\* login() writes it.
InitToken == "t1"

LoggedIn(tok) == [logged_in |-> TRUE, login_time |-> isoformat(0), csrf |-> tok]

InitWith(ips) ==
    /\ now = 0
    /\ request_times = <<>>
    /\ cache = <<>>
    /\ session \in [IPs -> {EmptySession, LoggedIn(InitToken)}]
    /\ \A ip \in IPs \ ips : session[ip] = EmptySession
    /\ login_attempts = <<>>
    /\ blocked_ips = <<>>
    /\ admitted = [ip \in IPs |-> <<>>]
    /\ stored = <<>>
    /\ rejected = [ip \in IPs |-> FALSE]
    /\ last = NoReply
    /\ threads = [w \in Workers |-> IdleThread]
    /\ document = NoPage
    /\ logins = NoLogins

-----------------------------------------------------------------------------
(* Specifications *)

Kinds == {"ok", "empty", "r429", "http_error", "timeout", "conn_error"}

\* The answers of the panel to one _request call, of the given kinds.
Answers(req, kinds) == {r \in UpstreamOne(req) : r.kind \in kinds}

\* A page whose 'next' link get_all_data follows.
Continues(r) == r.kind = "ok" /\ r.next /\ r.body.shape = "full"

\* The answers of the panel to the page requests of one get_all_data call:
\* every page but the last gives a 'next' link, and the last gives none
\* unless get_all_data stops at max_pages.
PageSeqs(req, kinds) ==
    {p \in UNION {[1..n -> {r \in Upstream(req) : r.kind \in kinds}] : n \in 1..MaxPages} :
        \A i \in 1..Len(p) :
            /\ i < Len(p) => Continues(p[i])
            /\ i = Len(p) /\ Continues(p[i]) => Len(p) = max_pages}

\* <<uuid, action, signal>> of the POST /api/server requests: one for each
\* way through server_action.
ActionArgs ==
    {<<"not-a-uuid", "power", "start">>, <<"uuid-1", "power", "start">>,
     <<"uuid-1", "power", "bogus">>, <<"uuid-1", "delete", "">>,
     <<"uuid-1", "other", "">>}

\* The panel is down: every request to it times out.
Down == Resp("timeout", 0, NoBody, NoDetail, FALSE)

-----------------------------------------------------------------------------
(* SpecRate: two clients, every route, the panel down (so that the cache     *)
(* stays empty and the state is the rate limiter's and the sessions').       *)

RateRequests(w, ip, host) ==
    \/ api_status(w, ip, host, Down)
    \/ get_stats(w, ip, host, Down, Down, Down)
    \/ \E header \in Headers :
          server_action(w, ip, host, header, "uuid-1", "delete", "", Down)
    \/ handle_users(w, ip, host, "GET", NoToken, None, Down, <<Down>>)
    \/ \E header \in Headers : delete_user(w, ip, host, header, "7", Down)
    \/ get_nodes(w, ip, host, <<Down>>)
    \/ dashboard(ip, host)
    \/ logout(ip)

\* The second client only asks for the status and the stats.  One worker
\* thread serves the requests of the first client and the other those of the
\* second: requests of the two overlap, and time passes while they wait for
\* the panel (SpecConc has the overlapping requests of one client).
NextRate ==
    \/ Tick
    \/ add_security_headers
    \/ \E host \in Hosts : RateRequests("w1", "ip1", host)
    \/ api_status("w2", "ip2", DashHost, Down)
    \/ get_stats("w2", "ip2", DashHost, Down, Down, Down)

SpecRate == InitWith(IPs) /\ [][NextRate]_vars

-----------------------------------------------------------------------------
(* SpecConc: the worker threads of the server run GET /api/status requests  *)
(* of one client, the panel down.  A thread may be preempted between any    *)
(* two statements of rate_limit.wrapped; the list comprehension of line 220 *)
(* is evaluated in one step and stored in the next.  Each request has its   *)
(* own session, read from the cookie the client holds when the request      *)
(* comes in; its response brings the client the session it ends with.       *)

ConcUnchanged ==
    <<now, cache, login_attempts, blocked_ips, stored, rejected, last, document, logins>>

\* check_csrf and login_required, then lines 215-216 of wrapped.  A request
\* login_required redirects is answered at once.
t_begin(w, ip) ==
    /\ ThreadAt(w, "idle")
    /\ Len(admitted[ip]) < MaxAdmitted
    /\ \E tok \in NewTokens(session[ip]) :
        LET lr == login_required(session[ip], now, tok)
        IN  /\ session' = IF lr.pass THEN session
                          ELSE [session EXCEPT ![ip] = lr.session]
            /\ threads' = [threads EXCEPT ![w] =
                    IF lr.pass
                    THEN [pc |-> "member", ip |-> ip, current_time |-> now,
                          filtered |-> <<>>, status |-> 0, session |-> lr.session]
                    ELSE [IdleThread EXCEPT !.status = LoginRedirect.status]]
    /\ UNCHANGED <<request_times, admitted>>
    /\ UNCHANGED ConcUnchanged

\* line 217: if client_ip not in request_times
t_in(w) ==
    /\ ThreadAt(w, "member")
    /\ Goto(w, IF threads[w].ip \notin DOMAIN request_times THEN "setdefault" ELSE "prune")
    /\ UNCHANGED <<request_times, session, admitted>>
    /\ UNCHANGED ConcUnchanged

\* line 218: request_times[client_ip] = []
t_setdefault(w) ==
    /\ ThreadAt(w, "setdefault")
    /\ request_times' = (threads[w].ip :> <<>>) @@ request_times
    /\ Goto(w, "prune")
    /\ UNCHANGED <<session, admitted>>
    /\ UNCHANGED ConcUnchanged

\* line 220, right-hand side: the list comprehension
t_prune(w) ==
    /\ ThreadAt(w, "prune")
    /\ threads' = [threads EXCEPT
            ![w].pc = "assign",
            ![w].filtered = Prune(request_times[threads[w].ip],
                                  threads[w].current_time, Per)]
    /\ UNCHANGED <<request_times, session, admitted>>
    /\ UNCHANGED ConcUnchanged

\* line 220, the assignment
t_assign(w) ==
    /\ ThreadAt(w, "assign")
    /\ request_times' = [request_times EXCEPT ![threads[w].ip] = threads[w].filtered]
    /\ Goto(w, "check")
    /\ UNCHANGED <<session, admitted>>
    /\ UNCHANGED ConcUnchanged

\* lines 222-223; the 429 answer carries the request's session
t_check(w) ==
    /\ ThreadAt(w, "check")
    /\ LET below == BelowLimit(request_times[threads[w].ip], LimitStatus)
       IN  /\ threads' = [threads EXCEPT ![w] =
                   IF below
                   THEN [@ EXCEPT !.pc = "append"]
                   ELSE [IdleThread EXCEPT !.status = RateRejected.status]]
           /\ session' = IF below THEN session
                         ELSE [session EXCEPT ![threads[w].ip] = threads[w].session]
    /\ UNCHANGED <<request_times, admitted>>
    /\ UNCHANGED ConcUnchanged

\* line 225
t_append(w) ==
    /\ ThreadAt(w, "append")
    /\ request_times' = [request_times EXCEPT
            ![threads[w].ip] = Append(@, threads[w].current_time)]
    /\ admitted' = [admitted EXCEPT
            ![threads[w].ip] = Append(InWindow(@, now), threads[w].current_time)]
    /\ Goto(w, "handler")
    /\ UNCHANGED session
    /\ UNCHANGED ConcUnchanged

\* line 226: f(), here api_status with the panel down; its answer carries
\* the request's session
t_handler(w) ==
    /\ ThreadAt(w, "handler")
    /\ LET res == _request(cache, now, StatusReq[1], "GET", NoParams, FALSE, Down)
       IN  /\ threads' = [threads EXCEPT ![w] =
                   [IdleThread EXCEPT !.status = ErrorOr(res, 200, <<>>).status]]
           /\ cache' = res.cache
    /\ session' = [session EXCEPT ![threads[w].ip] = threads[w].session]
    /\ UNCHANGED <<now, request_times, login_attempts, blocked_ips,
                   admitted, stored, rejected, last, document, logins>>

NextConc ==
    \/ Tick
    \/ \E w \in Workers :
          \/ t_begin(w, "ip1")
          \/ t_in(w)
          \/ t_setdefault(w)
          \/ t_prune(w)
          \/ t_assign(w)
          \/ t_check(w)
          \/ t_append(w)
          \/ t_handler(w)

SpecConc == InitWith({"ip1"}) /\ [][NextConc]_vars

-----------------------------------------------------------------------------
(* Spec: one client, the cached route (GET /api/servers) and the routes that *)
(* write to the panel, the panel answering in every way.                     *)

\* The query strings of the get_servers requests: <<page, q, suspended>>.
ServerArgs == {<<"1", <<>>, "">>, <<"2", <<"<", "a">>, "true">>}

\* One answer of each kind: a full body of each version, an empty one, 429,
\* one other error status, a timeout, a connection error.
OneOfEach(req) ==
    {r \in Answers(req, Kinds) :
        /\ r.kind = "ok" => r.body.shape = "full"
        /\ r.kind = "http_error" => r.status = 503 /\ r.detail = NoDetail}

\* The answers to a POST or DELETE: done, refused, or no answer.
WriteAnswers(req) ==
    {r \in OneOfEach(req) : r.kind \in {"ok", "http_error", "timeout"} /\ r.body.ver <= 1}

\* get_stats reads of an answer only whether it failed and whether the body
\* has 'meta': one answer of each sort.
StatAnswers(req) ==
    {r \in Answers(req, {"ok", "empty", "timeout"}) :
        r.kind = "ok" => r.body.ver = 1 /\ r.body.shape = "full"}

ActionAnswers == WriteAnswers(<<"servers/uuid-1", NoParams>>)
UsersAnswers == WriteAnswers(<<"users", NoParams>>)
UserAnswers == WriteAnswers(<<"users/7", NoParams>>)

ApiRequests(ip, host) ==
    \/ \E a \in ServerArgs : get_servers("w1", ip, host, a[1], a[2], a[3])
    \/ \E header \in Headers, a \in ActionArgs, r \in ActionAnswers :
          server_action("w1", ip, host, header, a[1], a[2], a[3], r)
    \/ \E header \in Headers, user_data \in UserDatas, r \in UsersAnswers :
          handle_users("w1", ip, host, "POST", header, user_data, r, <<>>)
    \/ \E header \in Headers, r \in UserAnswers :
          delete_user("w1", ip, host, header, "7", r)

\* One request at a time: the next one starts when the one before has its
\* answer, and time passes between two requests and while a request waits
\* for the panel (SpecCache has the requests that overlap, and a clock that
\* advances between any two statements).
Next ==
    \/ (Quiet \/ \E w \in Workers : threads[w].pc \in {"fetch", "panel"}) /\ Tick
    \/ Quiet /\ ApiRequests("ip1", DashHost)
    \/ threads["w1"].pc = "panel" /\ ApiRequests("ip1", DashHost) /\ threads' # threads
    \/ get_paged_data("w1", OneOfEach(threads["w1"].req))
    \/ add_security_headers

Init == InitWith({"ip1"})

Spec == Init /\ [][Next]_vars

-----------------------------------------------------------------------------
(* SpecCache: two worker threads run get_paged_data('servers', params), that *)
(* is _request with method GET and use_cache, statement by statement, for   *)
(* requests of one client for the first page of servers.                     *)

CacheRaceAnswers(req) ==
    {r \in Answers(req, {"ok", "timeout"}) : r.kind = "ok" => r.body.shape = "full"}

NextCache ==
    \/ Tick
    \/ add_security_headers
    \/ \E w \in Workers :
          \/ get_servers(w, "ip1", DashHost, "1", <<>>, "")
          \/ get_paged_data(w, CacheRaceAnswers(threads[w].req))

SpecCache == InitWith({"ip1"}) /\ [][NextCache]_vars

-----------------------------------------------------------------------------
(* SpecErr: one client, every route, one worker thread, the panel           *)
(* answering with every kind of failure (429, each other error status with  *)
(* each sort of error body, a timeout, a connection error) and with 2xx      *)
(* bodies that lack fields.                                                  *)

ErrAnswers(req) ==
    {r \in Answers(req, Kinds \ {"empty"}) :
        r.kind = "ok" => r.body.ver = 1 /\ r.body.shape = "full"}

ErrPages(req) ==
    {p \in PageSeqs(req, Kinds \ {"empty"}) :
        \A i \in 1..Len(p) : p[i].kind = "ok" => p[i].body.ver = 1}

ErrRequests(ip, host) ==
    \/ \E r \in ErrAnswers(StatusReq) : api_status("w1", ip, host, r)
    \/ \E r1 \in ErrAnswers(StatusReq), r2 \in StatAnswers(UsersStatReq),
          r3 \in StatAnswers(NodesStatReq) : get_stats("w1", ip, host, r1, r2, r3)
    \/ get_servers("w1", ip, host, "1", <<>>, "")
    \/ \E r \in ErrAnswers(<<"servers/uuid-1", NoParams>>) :
          server_action("w1", ip, host, InitToken, "uuid-1", "delete", "", r)
    \/ \E p \in ErrPages(<<"users", NoParams>>) :
          handle_users("w1", ip, host, "GET", NoToken, None, Down, p)
    \/ \E r \in ErrAnswers(<<"users", NoParams>>) :
          handle_users("w1", ip, host, "POST", InitToken, "complete", r, <<>>)
    \/ \E r \in ErrAnswers(<<"users/7", NoParams>>) :
          delete_user("w1", ip, host, InitToken, "7", r)
    \/ \E p \in ErrPages(<<"nodes", NoParams>>) : get_nodes("w1", ip, host, p)

NextErr ==
    \/ Tick
    \/ add_security_headers
    \/ ErrRequests("ip1", DashHost)
    \/ get_paged_data("w1", ErrAnswers(threads["w1"].req))

SpecErr == InitWith({"ip1"}) /\ [][NextErr]_vars

-----------------------------------------------------------------------------
(* SpecCsrf: one client sends state-changing requests (POST, DELETE, PATCH)  *)
(* with every X-CSRF-Token header to every route that takes them and to     *)
(* /login, between GET requests that fill request_times and the cache.       *)

CsrfRequests(ip, host) ==
    \/ api_status("w1", ip, host, Down)
    \/ get_servers("w1", ip, host, "1", <<>>, "")
    \/ \E header \in Headers, r \in Answers(NoReq, {"ok", "timeout"}) :
          server_action("w1", ip, host, header, "uuid-1", "delete", "", r)
    \/ \E header \in Headers, r \in Answers(NoReq, {"ok", "timeout"}) :
          handle_users("w1", ip, host, "POST", header, "complete", r, <<>>)
    \/ \E header \in Headers, r \in Answers(NoReq, {"ok", "timeout"}) :
          delete_user("w1", ip, host, header, "7", r)
    \/ \E header \in Headers : patch_users(ip, host, header)
    \/ \E method \in {"GET", "POST"}, header \in Headers, tok \in Tokens :
          login(ip, method, header, ADMIN_USERNAME, ADMIN_PASSWORD, tok)
    \/ logout(ip)

OkAnswers(req) == Answers(req, {"ok"})

NextCsrf ==
    \/ Tick
    \/ add_security_headers
    \/ CsrfRequests("ip1", DashHost)
    \/ get_paged_data("w1", OkAnswers(threads["w1"].req))

SpecCsrf == InitWith({"ip1"}) /\ [][NextCsrf]_vars

-----------------------------------------------------------------------------
(* SpecAuth: one client over hours: the session timeout (an hour) and the   *)
(* login lockout (15 and 30 minutes).  Every request goes through           *)
(* check_csrf first, those to /login included, and those to the protected   *)
(* routes then through login_required and the rate limiter.  The client     *)
(* either holds the cookie of a session that is logged in or none.  The     *)
(* panel is down.                                                            *)

\* Seconds between two moments at which the client sends requests
AuthStep == 900
\* The last moment of the model
MaxAuthTime == 4500

\* timeout=15 of requests.request and requests.get: how long a request to
\* the panel that is down keeps its handler waiting
PanelTimeout == 15

\* d seconds pass.
Wait(d) ==
    /\ last = NoReply
    /\ now + d <= MaxAuthTime
    /\ now' = now + d
    /\ UNCHANGED <<request_times, cache, session, login_attempts, blocked_ips,
                   admitted, stored, rejected, last, threads, document, logins>>

AuthRequests(ip, host) ==
    \/ dashboard(ip, host)
    \/ api_status("w1", ip, host, Down)
    \/ \E header \in Headers : delete_user("w1", ip, host, header, "7", Down)
    \/ \E method \in {"GET", "POST"}, header \in Headers, password \in Passwords,
          tok \in Tokens :
          login(ip, method, header, ADMIN_USERNAME, password, tok)
    \/ logout(ip)

\* The client sends its requests every AuthStep seconds, and while one of
\* them waits for the panel, which is over after PanelTimeout seconds.  The
\* clock is followed through such a wait at the moment the session of time 0
\* reaches the age SESSION_TIMEOUT; at the other moments a waiting request is
\* answered before the clock moves.
NextAuth ==
    \/ Quiet /\ Wait(AuthStep - (now % AuthStep))
    \/ ~Quiet /\ now = SESSION_TIMEOUT /\ Wait(PanelTimeout)
    \/ add_security_headers
    \/ AuthRequests("ip1", DashHost)

SpecAuth == InitWith({"ip1"}) /\ [][NextAuth]_vars

-----------------------------------------------------------------------------
(* SpecLockout: the two functions of the login lockout, called for one IP   *)
(* over hours in the order login() calls them (lines 840 and 861):          *)
(* is_ip_blocked, and add_login_attempt if that answered False.  These are  *)
(* calls of the functions: a POST to /login of a client that is not logged  *)
(* in is answered by check_csrf before login() runs.                        *)

\* The answer of a call of one of the two functions.
Answered(ip, function, answer) ==
    [NoReply EXCEPT !.ip = ip, !.route = function, !.stage = answer]

\* is_ip_blocked(ip), lines 62-68
is_ip_blocked_call(ip) ==
    LET blk == is_ip_blocked(blocked_ips, ip, now)
    IN  /\ last = NoReply
        /\ blocked_ips' = blk.blocked_ips
        /\ last' = Answered(ip, "is_ip_blocked", IF blk.blocked THEN "blocked" ELSE "free")
        /\ UNCHANGED <<now, request_times, cache, session, login_attempts, admitted,
                       stored, rejected, threads, document, logins>>

\* add_login_attempt(ip), lines 70-83, after is_ip_blocked(ip) answered False
add_login_attempt_call(ip) ==
    LET att == add_login_attempt(login_attempts, blocked_ips, ip, now)
    IN  /\ last = Answered(ip, "is_ip_blocked", "free")
        /\ login_attempts' = att.login_attempts
        /\ blocked_ips' = att.blocked_ips
        /\ logins' = [logins EXCEPT ![ip] = FailedLogin(@, now)]
        /\ last' = Answered(ip, "add_login_attempt",
                            IF att.blocked THEN "blocked" ELSE "counted")
        /\ UNCHANGED <<now, request_times, cache, session, admitted, stored, rejected,
                       threads, document>>

\* The caller goes on with the answer; d seconds pass before the next call.
Elapse(d) ==
    /\ last # NoReply \/ d > 0
    /\ now + d <= MaxAuthTime
    /\ now' = now + d
    /\ last' = NoReply
    /\ UNCHANGED <<request_times, cache, session, login_attempts, blocked_ips,
                   admitted, stored, rejected, threads, document, logins>>

NextLockout ==
    \/ \E d \in {0, AuthStep} : Elapse(d)
    \/ is_ip_blocked_call("ip1")
    \/ add_login_attempt_call("ip1")

SpecLockout == InitWith({}) /\ [][NextLockout]_vars

-----------------------------------------------------------------------------------------------------------------------------------------------------
(* SpecAttempt: worker threads that call, for one client, is_ip_blocked and  *)
(* then, when it answered False, add_login_attempt, in the order login()     *)
(* calls them (lines 840 and 861).  A thread may be preempted between any    *)
(* two statements of the two functions; the list comprehension of lines      *)
(* 73-74 is evaluated in one step and stored in the next.  These are calls   *)
(* of the two functions: a POST to /login of a client that is not logged in  *)
(* is answered by check_csrf before login() runs.                            *)

\* Most failed logins of one client
MaxFailed == 6

AttemptUnchanged ==
    <<now, request_times, cache, session, admitted, stored, rejected, last, document>>

\* line 63: if ip in blocked_ips (when it is not, is_ip_blocked returns False
\* at line 68 and the caller goes on to add_login_attempt)
a_in(w, ip) ==
    /\ ThreadAt(w, "idle")
    /\ LET in_flight == {v \in Workers : threads[v].pc # "idle"}
       IN  Len(logins[ip].failed) + Cardinality(in_flight) < MaxFailed
    /\ threads' = [threads EXCEPT ![w] =
            [pc |-> IF ip \in DOMAIN blocked_ips THEN "until" ELSE "now",
             ip |-> ip, current_time |-> 0, filtered |-> <<>>, status |-> 0]]
    /\ UNCHANGED <<login_attempts, blocked_ips, logins>>
    /\ UNCHANGED AttemptUnchanged

\* line 64: if datetime.now() < blocked_ips[ip]: return True (KeyError if
\* another thread has deleted the entry: the call ends there)
a_until(w) ==
    /\ ThreadAt(w, "until")
    /\ threads' = [threads EXCEPT ![w] =
            IF threads[w].ip \notin DOMAIN blocked_ips THEN IdleThread
            ELSE IF now < blocked_ips[threads[w].ip] THEN IdleThread
            ELSE [@ EXCEPT !.pc = "del"]]
    /\ UNCHANGED <<login_attempts, blocked_ips, logins>>
    /\ UNCHANGED AttemptUnchanged

\* line 67: del blocked_ips[ip] (KeyError if another thread has deleted the
\* entry: the call ends there), then return False
a_del(w) ==
    /\ ThreadAt(w, "del")
    /\ LET ip == threads[w].ip
       IN  IF ip \in DOMAIN blocked_ips
           THEN /\ blocked_ips' = [k \in DOMAIN blocked_ips \ {ip} |-> blocked_ips[k]]
                /\ Goto(w, "now")
           ELSE /\ blocked_ips' = blocked_ips
                /\ threads' = [threads EXCEPT ![w] = IdleThread]
    /\ UNCHANGED <<login_attempts, logins>>
    /\ UNCHANGED AttemptUnchanged

\* line 71: current_time = datetime.now()
a_now(w) ==
    /\ ThreadAt(w, "now")
    /\ threads' = [threads EXCEPT ![w].pc = "prune", ![w].current_time = now]
    /\ UNCHANGED <<login_attempts, blocked_ips, logins>>
    /\ UNCHANGED AttemptUnchanged

\* lines 73-74, right-hand side: the list comprehension over
\* login_attempts[ip], which the defaultdict creates when it is missing
a_prune(w) ==
    /\ ThreadAt(w, "prune")
    /\ login_attempts' = IF threads[w].ip \notin DOMAIN login_attempts
                         THEN (threads[w].ip :> <<>>) @@ login_attempts
                         ELSE login_attempts
    /\ threads' = [threads EXCEPT
            ![w].pc = "assign",
            ![w].filtered = Prune(login_attempts'[threads[w].ip],
                                  threads[w].current_time, AttemptWindow)]
    /\ UNCHANGED <<blocked_ips, logins>>
    /\ UNCHANGED AttemptUnchanged

\* lines 73-74, the assignment
a_assign(w) ==
    /\ ThreadAt(w, "assign")
    /\ login_attempts' = [login_attempts EXCEPT ![threads[w].ip] = threads[w].filtered]
    /\ Goto(w, "append")
    /\ UNCHANGED <<blocked_ips, logins>>
    /\ UNCHANGED AttemptUnchanged

\* line 76
a_append(w) ==
    /\ ThreadAt(w, "append")
    /\ login_attempts' = [login_attempts EXCEPT
            ![threads[w].ip] = Append(@, threads[w].current_time)]
    /\ Goto(w, "check")
    /\ UNCHANGED <<blocked_ips, logins>>
    /\ UNCHANGED AttemptUnchanged

\* line 78: if len(login_attempts[ip]) >= Config.MAX_LOGIN_ATTEMPTS (when it
\* is not, add_login_attempt returns False at line 83); the attempt is
\* counted
a_check(w) ==
    /\ ThreadAt(w, "check")
    /\ LET ip == threads[w].ip
       IN  /\ threads' = [threads EXCEPT ![w] =
                   IF Len(login_attempts[ip]) >= MAX_LOGIN_ATTEMPTS
                   THEN [@ EXCEPT !.pc = "block"]
                   ELSE IdleThread]
           /\ logins' = [logins EXCEPT ![ip] = FailedLogin(@, threads[w].current_time)]
    /\ UNCHANGED <<login_attempts, blocked_ips>>
    /\ UNCHANGED AttemptUnchanged

\* lines 80-82: blocked_ips[ip] = current_time + timedelta(minutes=30), and
\* return True
a_block(w) ==
    /\ ThreadAt(w, "block")
    /\ blocked_ips' = (threads[w].ip :> (threads[w].current_time + BlockTime)) @@ blocked_ips
    /\ threads' = [threads EXCEPT ![w] = IdleThread]
    /\ UNCHANGED <<login_attempts, logins>>
    /\ UNCHANGED AttemptUnchanged

NextAttempt ==
    \/ Wait(AuthStep)
    \/ \E w \in Workers :
          \/ a_in(w, "ip1")
          \/ a_until(w)
          \/ a_del(w)
          \/ a_now(w)
          \/ a_prune(w)
          \/ a_assign(w)
          \/ a_append(w)
          \/ a_check(w)
          \/ a_block(w)

SpecAttempt == InitWith({}) /\ [][NextAttempt]_vars

-----------------------------------------------------------------------------
(* SpecRewrite: the UrlRewriter of the reverse-proxy variants of the         *)
(* application.  A URL is the sequence of its characters; an HTML document   *)
(* is the sequence of its elements' URL attributes, each a record of tag,    *)
(* attribute name and value.  The references of the documents carry no dot   *)
(* segments.                                                                 *)

\* Most elements of a document
MaxElems == 2
\* Most passes of rewrite over one document
MaxPasses == 2

\* The static RewriteRule table
RewriteRules ==
    {<<"link", "href">>, <<"script", "src">>, <<"img", "src">>,
     <<"iframe", "src">>, <<"a", "href">>}

StartsWith(s, prefix) ==
    /\ Len(s) >= Len(prefix)
    /\ SubSeq(s, 1, Len(prefix)) = prefix

SchemeHttp == <<"h", "t", "t", "p", ":", "/", "/">>
SchemeHttps == <<"h", "t", "t", "p", "s", ":", "/", "/">>
FetchPrefix == <<"/", "f", "e", "t", "c", "h", "?">>
FetchUrl == FetchPrefix \o <<"u", "r", "l", "=">>

\* Percent-encoding of one character: the reserved characters become their
\* escape, every other character of the model's URLs is unreserved.
Escape(c) ==
    CASE c = ":" -> <<"%", "3", "A">>
      [] c = "/" -> <<"%", "2", "F">>
      [] c = "?" -> <<"%", "3", "F">>
      [] c = "=" -> <<"%", "3", "D">>
      [] c = "#" -> <<"%", "2", "3">>
      [] c = "%" -> <<"%", "2", "5">>
      [] OTHER -> <<c>>

RECURSIVE PercentEncode(_)
PercentEncode(url) ==
    IF url = <<>> THEN <<>> ELSE Escape(Head(url)) \o PercentEncode(Tail(url))

\* The positions of character c in s
Positions(s, c) == {i \in DOMAIN s : s[i] = c}

SetMin(S) == CHOOSE x \in S : \A y \in S : x <= y
SetMax(S) == CHOOSE x \in S : \A y \in S : x >= y

\* scheme of an absolute URL: what precedes its first ":"
SchemeOf(url) == SubSeq(url, 1, SetMin(Positions(url, ":")) - 1)

\* Where the path of an absolute URL scheme://host/path starts: at the first
\* "/" after the "//", or past the end when the URL has no path.
PathStart(url) ==
    LET after == SetMin(Positions(url, ":")) + 3
        slashes == {i \in Positions(url, "/") : i >= after}
    IN  IF slashes = {} THEN Len(url) + 1 ELSE SetMin(slashes)

\* scheme://host of an absolute URL
OriginOf(url) == SubSeq(url, 1, PathStart(url) - 1)

\* An absolute URL up to and including the last "/" of its path ("/" is the
\* path of a URL that has none).
DirOf(url) ==
    IF PathStart(url) > Len(url)
    THEN url \o <<"/">>
    ELSE SubSeq(url, 1, SetMax({i \in Positions(url, "/") : i >= PathStart(url)}))

\* Base-URL resolution of a reference that has no scheme: protocol-relative,
\* root-relative, fragment-only, empty, or a relative path.
Resolve(base_url, ref) ==
    IF ref = <<>> THEN base_url
    ELSE IF StartsWith(ref, <<"/", "/">>) THEN SchemeOf(base_url) \o <<":">> \o ref
    ELSE IF Head(ref) = "/" THEN OriginOf(base_url) \o ref
    ELSE IF Head(ref) = "#" THEN base_url \o ref
    ELSE DirOf(base_url) \o ref

\* Mutant: only the "starts with http" check; a root-relative /fetch? path is
\* resolved and encoded again.
RewriteValue_NoFetchSkip(value, base_url) ==
    IF StartsWith(value, SchemeHttp) \/ StartsWith(value, SchemeHttps)
    THEN value
    ELSE FetchUrl \o PercentEncode(Resolve(base_url, value))

\* The new value of one attribute a RewriteRule matches
RewriteValue(value, base_url) ==
    IF StartsWith(value, SchemeHttp) \/ StartsWith(value, SchemeHttps)
    THEN value
    ELSE IF StartsWith(value, FetchPrefix)
    THEN value
    ELSE FetchUrl \o PercentEncode(Resolve(base_url, value))

\* rewrite(html, target)
rewrite(html, base_url) ==
    [i \in DOMAIN html |->
        IF <<html[i].tag, html[i].attr>> \in RewriteRules
        THEN [html[i] EXCEPT !.value = RewriteValue(@, base_url)]
        ELSE html[i]]

\* target.base_url
BaseUrls ==
    {<<"h", "t", "t", "p", "s", ":", "/", "/", "x", ".", "t", "e", "s", "t">>,
     <<"h", "t", "t", "p", ":", "/", "/", "x", ".", "t", "e", "s", "t", "/", "p", "/", "i">>}

\* Attribute values: /a.png, a.png, //c.test/a, #top, https://other.test/y,
\* http://o.test/y, and /fetch?url=https%3A%2F%2Fx.test%2Fa.png
AttrValues ==
    {<<"/", "a", ".", "p", "n", "g">>,
     <<"a", ".", "p", "n", "g">>,
     <<"/", "/", "c", ".", "t", "e", "s", "t", "/", "a">>,
     <<"#", "t", "o", "p">>,
     SchemeHttps \o <<"o", "t", "h", "e", "r", ".", "t", "e", "s", "t", "/", "y">>,
     SchemeHttp \o <<"o", ".", "t", "e", "s", "t", "/", "y">>,
     FetchUrl \o <<"h", "t", "t", "p", "s", "%", "3", "A", "%", "2", "F", "%", "2", "F",
                   "x", ".", "t", "e", "s", "t", "%", "2", "F", "a", ".", "p", "n", "g">>}

\* Tag/attribute pairs of the documents: two of the table, and srcset, which
\* is outside it
AttrPairs == {<<"img", "src">>, <<"a", "href">>, <<"img", "srcset">>}

Elements ==
    {[tag |-> pr[1], attr |-> pr[2], value |-> v] : pr \in AttrPairs, v \in AttrValues}

RECURSIVE Documents(_)
Documents(n) ==
    IF n = 0 THEN {<<>>}
    ELSE LET shorter == Documents(n - 1)
         IN  shorter \cup {Append(d, e) : d \in {x \in shorter : Len(x) = n - 1},
                                           e \in Elements}

\* One pass of the rewriter over the document, the output of a pass being
\* the input of the next.
rewrite_page ==
    /\ document.passes < MaxPasses
    /\ document' = [document EXCEPT !.html = rewrite(document.html, document.base_url),
                            !.passes = @ + 1]
    /\ UNCHANGED <<now, request_times, cache, session, login_attempts, blocked_ips,
                   admitted, stored, rejected, last, threads, logins>>

NextRewrite == rewrite_page

InitRewrite ==
    /\ now = 0
    /\ request_times = <<>>
    /\ cache = <<>>
    /\ session = [ip \in IPs |-> EmptySession]
    /\ login_attempts = <<>>
    /\ blocked_ips = <<>>
    /\ admitted = [ip \in IPs |-> <<>>]
    /\ stored = <<>>
    /\ rejected = [ip \in IPs |-> FALSE]
    /\ last = NoReply
    /\ threads = [w \in Workers |-> IdleThread]
    /\ logins = NoLogins
    /\ \E b \in BaseUrls, d \in Documents(MaxElems) :
          document = [base_url |-> b, original |-> d, html |-> d, passes |-> 0]

SpecRewrite == InitRewrite /\ [][NextRewrite]_vars

-----------------------------------------------------------------------------
(* Claims *)

\* Worker thread w takes a request in this step: the request has passed
\* check_csrf and the decorators, and its handler has run as far as its first
\* call to the panel.
Takes(w) == threads[w].pc = "idle" /\ threads'[w].pc \in {"in", "panel"}

\* The request that went through check_csrf and the decorators in this step,
\* with what was decided for it: the request answered at once (by check_csrf,
\* by a decorator, or by a handler that makes no upstream request), or the
\* request a worker thread has taken (stage "handler", no answer yet).  It is
\* NoReply in a step in which no request came in.
Decided ==
    IF \E w \in Workers : Takes(w)
    THEN LET th == threads'[CHOOSE w \in Workers : Takes(w)]
             fetching == th.pc = "in"
         IN  [NoReply EXCEPT !.ip = th.ip,
                             !.host = th.host,
                             !.route = IF fetching THEN "get_servers" ELSE th.route,
                             !.method = IF fetching THEN "GET" ELSE th.method,
                             !.header = IF fetching THEN NoToken ELSE th.header,
                             !.stage = "handler"]
    ELSE IF last = NoReply /\ last'.stage # "returned" THEN last' ELSE NoReply

\* A request got as far as rate_limit.wrapped in this step.
RateChecked ==
    /\ Decided # NoReply
    /\ Decided.stage \in {"rate", "handler"}
    /\ Decided.route \in LimitedRoutes

\* rate_limit.wrapped admitted a request in this step.
Admitted == RateChecked /\ Decided.stage = "handler"

\* Worker thread w has just taken a request: its handler waits for the
\* panel's first answer, the clock has not moved since, and no other request
\* is in progress or being answered.
JustTaken(w) ==
    /\ threads[w].pc = "panel"
    /\ threads[w].got = <<>>
    /\ threads[w].current_time = now
    /\ \A v \in Workers \ {w} : threads[v].pc = "idle"
    /\ last = NoReply

\* C1: when a request is admitted to a route with limit L, the admissions of
\* its IP in the window of Per seconds ending at that request (the admitted
\* one included, those exactly Per seconds old excluded) number at most L.
\* The count is over all rate-limited routes, which bounds the count for the
\* route itself; every window is contained in one that ends at an admission.
C1_AdmissionsWithinLimit ==
    [][Admitted => Len(admitted'[Decided.ip]) <= RouteLimit(Decided.route)]_vars

\* C1 witness: a request is admitted into a full window that has rolled: the
\* window holds admissions of an earlier time, and older requests of the
\* client have left it.
C1_Witness ==
    \E w \in Workers :
        /\ JustTaken(w)
        /\ Len(admitted[threads[w].ip]) = RouteLimit(threads[w].route)
        /\ now >= Per
        /\ \E i \in DOMAIN admitted[threads[w].ip] : admitted[threads[w].ip][i] < now

\* C2: with requests of one IP running concurrently, the admissions inside
\* one window never exceed the limit, and once no request is in progress
\* every admission still inside the window is on the client's list.
C2_MutualExclusion ==
    /\ Len(admitted["ip1"]) <= LimitStatus
    /\ (\A w \in Workers : threads[w].pc = "idle") =>
          \A x \in {admitted["ip1"][i] : i \in DOMAIN admitted["ip1"]} :
              now - x < Per =>
                  /\ "ip1" \in DOMAIN request_times
                  /\ Len(SelectSeq(admitted["ip1"], LAMBDA y : y = x))
                       <= Len(SelectSeq(request_times["ip1"], LAMBDA y : y = x))

\* C3: a rate-limit check keeps of the client's list the timestamps less than
\* Per seconds old; if fewer than the limit remain the request is admitted
\* and the list becomes those plus the current time, otherwise the request is
\* answered 429 and the list becomes those alone.
C3_PruneThenAdmit ==
    [][RateChecked =>
        LET ip == Decided.ip
            old == IF ip \in DOMAIN request_times THEN request_times[ip] ELSE <<>>
            kept == InWindow(old, now)
        IN  IF Len(kept) < RouteLimit(Decided.route)
            THEN Decided.stage = "handler" /\ request_times'[ip] = Append(kept, now)
            ELSE /\ Decided.stage = "rate"
                 /\ Decided.status = 429
                 /\ request_times'[ip] = kept]_vars

\* C3 witness: after as many admissions at one time as the default limit
\* allows, the next request of the client is rejected.
C3_Witness ==
    /\ last.route \in LimitedRoutes
    /\ last.stage = "rate"
    /\ RouteLimit(last.route) = LimitDefault
    /\ request_times[last.ip] = [i \in 1..LimitDefault |-> now]

\* The route handler of the request being answered ran ("returned": it ran
\* in a worker thread, which waited for the panel).
Ran == last # NoReply /\ last.stage \in {"handler", "returned"}

\* The request being answered is a cached GET (get_servers through
\* get_paged_data) that reached its handler.
CachedGet == Ran /\ last.route = "get_servers"

\* The cache key of the request being answered.
LastKey == _get_cache_key(last.req[1], last.req[2])

Failures == {"r429", "http_error", "timeout", "conn_error"}

\* Worker thread w goes from statement `from` of _request to statement `to`.
Goes(w, from, to) == threads[w].pc = from /\ threads'[w].pc = to

\* Worker thread w leaves statement `from` of _request.
Leaves(w, from) == threads[w].pc = from /\ threads'[w].pc # from

\* The cache holds an entry for the key of worker thread w that is younger
\* than cache_timeout.
FreshFor(w) ==
    /\ KeyOf(w) \in DOMAIN cache
    /\ now - cache[KeyOf(w)].timestamp < cache_timeout

\* C4: a request the rate limiter rejects is answered 429, issues no upstream
\* request, takes nothing from the cache and leaves the cache as it was.
C4_RateCheckFirst ==
    [][(last # NoReply /\ last.stage = "rate")' =>
          /\ last'.status = 429
          /\ last'.kind = "json"
          /\ last'.error = "Rate limit exceeded"
          /\ last'.calls = 0
          /\ ~last'.hit
          /\ last'.data = <<>>
          /\ cache' = cache
          /\ threads' = threads]_vars

\* C4 witness: a request for a page of servers is rejected by the rate limiter
\* while the cache holds an entry for it that is younger than cache_timeout.
C4_Witness ==
    /\ last # NoReply
    /\ last.stage = "rate"
    /\ last.route = "get_servers"
    /\ LastKey \in DOMAIN cache
    /\ now - cache[LastKey].timestamp < cache_timeout

\* C5: a cached GET is served from the cache only if the cache holds an entry
\* for its key that is younger than cache_timeout, and then it is served that
\* entry's data without an upstream request; with no entry, or one at least
\* cache_timeout old, nothing is taken from the cache and one upstream request
\* is issued.
C5_NeverStale ==
    [][/\ \A w \in Workers :
            /\ Leaves(w, "in") /\ KeyOf(w) \notin DOMAIN cache => threads'[w].pc = "fetch"
            /\ Leaves(w, "stamp") =>
                  threads'[w].pc = IF FreshFor(w) THEN "read" ELSE "fetch"
            /\ Leaves(w, "read") =>
                  /\ FreshFor(w)
                  /\ threads'[w].pc = "done"
                  /\ threads'[w].result = cache[KeyOf(w)].data
                  /\ threads'[w].outcome = "cache"
            /\ Goes(w, "done", "idle") =>
                  /\ last'.hit <=> threads[w].outcome = "cache"
                  /\ last'.error = None => last'.data = <<threads[w].result>>
       /\ (CachedGet)' =>
            /\ last'.hit => last'.calls = 0 /\ last'.error = None
            /\ ~last'.hit => last'.calls = 1 /\ last'.outcomes # <<"cache">>]_vars

\* C5 witness: a cached GET finds an entry for its key that has expired and
\* goes upstream.
C5_Witness ==
    /\ CachedGet
    /\ last.had_entry
    /\ ~last.hit
    /\ last.calls = 1
    /\ now >= cache_timeout

C7_FailureLeavesCache ==
    [][/\ \A w \in Workers :
            Leaves(w, "fetch") /\ threads'[w].outcome \in Failures =>
                threads'[w].pc = "done" /\ cache' = cache
       /\ (Ran /\ \E i \in DOMAIN last.outcomes : last.outcomes[i] \in Failures)' =>
          /\ cache' = cache
          /\ \A k \in DOMAIN cache' : cache'[k].data # NoBody
          /\ last'.route # "get_stats" => last'.error # None /\ last'.status = 500
          /\ last'.route = "get_stats" /\ last'.kind # "fault" =>
                \A i \in DOMAIN last'.outcomes :
                    last'.outcomes[i] \in Failures => last'.data[i] = NABody
          /\ last'.route = "get_servers" =>
                LET k == _get_cache_key(last'.req[1], last'.req[2])
                IN  k \in DOMAIN cache' => now - cache'[k].timestamp >= cache_timeout]_vars

\* C8: after a successful cached GET for (endpoint, params), a GET for the
\* same endpoint and params less than cache_timeout later is served the body
\* that GET stored, without an upstream request; one more than cache_timeout
\* later goes upstream; and what the cache serves is always the body last
\* fetched for this very endpoint and params.
C8_RoundTrip ==
    [][/\ \A w \in Workers :
            LET req == threads[w].req
                known == req \in DOMAIN stored
            IN  /\ (Leaves(w, "in") \/ Leaves(w, "stamp")) /\ known =>
                      /\ now - stored[req].timestamp < cache_timeout =>
                            threads'[w].pc \in {"stamp", "read"}
                      /\ now - stored[req].timestamp > cache_timeout =>
                            threads'[w].pc \in {"stamp", "fetch"}
                /\ Leaves(w, "read") =>
                      /\ known
                      /\ threads'[w].pc = "done"
                      /\ threads'[w].result = stored[req].data
                      /\ threads'[w].result.shape # "empty" => threads'[w].result.req = req
                /\ Goes(w, "done", "idle") /\ threads[w].outcome = "cache" =>
                      /\ last'.hit
                      /\ last'.calls = 0
                      /\ last'.data = <<threads[w].result>>
       /\ (CachedGet)' /\ last'.hit =>
            /\ last'.req \in DOMAIN stored
            /\ last'.data = <<stored[last'.req].data>>]_vars

\* C8 witness: a GET is served from the cache some time after the entry was
\* stored, while the cache holds an entry for other params too.
C8_Witness ==
    /\ CachedGet
    /\ last.hit
    /\ last.req \in DOMAIN stored
    /\ stored[last.req].timestamp < now
    /\ Cardinality(DOMAIN cache) >= 2

\* C9: a cached GET answered 2xx upstream gets to the assignment of line 125,
\* which leaves the cache with the entry {data: the fetched result,
\* timestamp: now} for its key and with every other entry as it was.
C9_PutReplaces ==
    [][\A w \in Workers :
          LET k == KeyOf(w)
          IN  /\ Leaves(w, "fetch") /\ threads'[w].outcome \in {"ok", "empty"} =>
                    threads'[w].pc = "store"
              /\ Leaves(w, "store") => threads'[w].pc = "assign"
              /\ Leaves(w, "assign") =>
                    /\ threads'[w].pc = "done"
                    /\ DOMAIN cache' = DOMAIN cache \cup {k}
                    /\ cache'[k] = [data |-> threads[w].result, timestamp |-> now]
                    /\ \A j \in DOMAIN cache \ {k} : cache'[j] = cache[j]
              /\ Goes(w, "done", "idle") /\ threads[w].wrote # <<>> =>
                    /\ last'.data = <<threads[w].wrote[1].data>>
                    /\ cache[k] = threads[w].wrote[1]]_vars

\* C9 witness: a successful cached GET replaced an expired entry of its key
\* while the cache held another entry.
C9_Witness ==
    /\ CachedGet
    /\ ~last.hit
    /\ last.outcomes = <<"ok">>
    /\ last.had_entry
    /\ cache[LastKey].timestamp = now
    /\ Cardinality(DOMAIN cache) >= 2

\* C10: no route answers with the 500 page Flask makes of an uncaught
\* exception.
C10_NoUnhandledFault == last.kind # "fault"

\* The messages that say nothing of what the panel sent: those _request and
\* get_all_data make up themselves, the status code being the only thing
\* taken from the response.
GenericMessages ==
    {"API rate limit hit. Please try again in a moment.",
     "Request to the panel API timed out.",
     "A critical error occurred while communicating with the Pterodactyl panel.",
     "Could not fetch all data from users.",
     "Could not fetch all data from nodes."}
    \cup {"API request failed with status " \o ToString(st) \o "." : st \in HttpErrorStatuses}

\* An upstream request of the request being answered ended in one of kinds.
Ended(kinds) == Ran /\ \E i \in DOMAIN last.outcomes : last.outcomes[i] \in kinds

\* C11: the error message a route returns after an upstream failure is one of
\* the fixed generic messages, whatever the body of the failing response.
C11_GenericMessage ==
    Ended(Failures) /\ last.error # None => last.error \in GenericMessages

C13_Status502 ==
    Ended({"timeout", "conn_error"}) =>
        last.status = 502 /\ last.error \in GenericMessages

\* C13 as amended: a route whose upstream request timed out or could not
\* connect answers 500 with one of the generic messages; get_stats answers
\* 200 with 'N/A' for that call (or 500 when it raises over another call's
\* body).
C13_Status500Generic ==
    Ended({"timeout", "conn_error"}) =>
        /\ last.route # "get_stats" =>
              /\ last.status = 500
              /\ last.kind = "json"
              /\ last.error \in GenericMessages
        /\ last.route = "get_stats" =>
              \/ last.kind = "fault"
              \/ /\ last.status = 200
                 /\ \A i \in DOMAIN last.outcomes :
                        last.outcomes[i] \in {"timeout", "conn_error"} =>
                            last.data[i] = NABody

\* C13 witness: the status request could not connect and is answered 500
\* with the message for that.
C13_Witness ==
    /\ Ended({"conn_error"})
    /\ last.route = "api_status"
    /\ last.status = 500
    /\ last.error = "A critical error occurred while communicating with the Pterodactyl panel."

\* A request to a rate-limited route came in in this step.
LimitedCall == Decided # NoReply /\ Decided.route \in LimitedRoutes

\* The list of timestamps of a client, empty when it has none.
TimesOf(rt, ip) == IF ip \in DOMAIN rt THEN rt[ip] ELSE <<>>

\* No list but that of ip differs between the tables rt and rt2.
OthersUnchanged(rt, rt2, ip) ==
    /\ DOMAIN rt2 \subseteq DOMAIN rt \cup {ip}
    /\ \A other \in DOMAIN rt \ {ip} : other \in DOMAIN rt2 /\ rt2[other] = rt[other]

\* C14 as claimed: every call to a rate-limited route appends one timestamp
\* to the caller's list and leaves the lists of the other clients alone.
C14_EveryCallOneSlot ==
    [][LimitedCall =>
          /\ TimesOf(request_times', Decided.ip)
               = Append(InWindow(TimesOf(request_times, Decided.ip), now), now)
          /\ OthersUnchanged(request_times, request_times', Decided.ip)]_vars

\* C14 as amended: a call the rate limiter admits appends one timestamp to
\* the caller's pruned list; a call it rejects appends none; a call stopped by
\* the CSRF check or by login_required leaves the table as it was; and no
\* call changes the list of another client.
C14_AdmittedCallOneSlot ==
    [][LimitedCall =>
        LET ip == Decided.ip
            kept == InWindow(TimesOf(request_times, ip), now)
        IN  /\ Decided.stage = "handler" => request_times'[ip] = Append(kept, now)
            /\ Decided.stage = "rate" => request_times'[ip] = kept
            /\ Decided.stage \in {"csrf", "login"} => request_times' = request_times
            /\ OthersUnchanged(request_times, request_times', ip)]_vars

\* C14 witness: a call of the first client is admitted while the second
\* client's list holds a timestamp that has left the window, and that list
\* is still there.
C14_Witness ==
    /\ JustTaken("w1")
    /\ threads["w1"].ip = "ip1"
    /\ threads["w1"].route \in LimitedRoutes
    /\ "ip2" \in DOMAIN request_times
    /\ \E i \in DOMAIN request_times["ip2"] : now - request_times["ip2"][i] >= Per

\* C15: a client whose latest rate-limit check rejected it is admitted by
\* its first check made after its oldest recorded timestamp left the window.
C15_Recovery ==
    [][RateChecked =>
        LET ip == Decided.ip
            old == TimesOf(request_times, ip)
        IN  rejected[ip] /\ old # <<>> /\ now - old[1] >= Per
                => Decided.stage = "handler"]_vars

\* Worker w has finished a request in which it assigned a cache entry.
Wrote(w) == threads[w].pc = "done" /\ threads[w].wrote # <<>>

\* C16: whatever the interleaving of two cached GETs, no thread raises, every
\* cache entry is whole (fetched data and the time read for it, which is not
\* later than now), and
\* once two threads have both fetched and written for one key the entry of
\* that key is the one written by one of them.
C16_LastWriteWins ==
    /\ \A w \in Workers : threads[w].pc # "fault"
    /\ \A k \in DOMAIN cache :
          /\ DOMAIN cache[k] = {"data", "timestamp"}
          /\ cache[k].data \notin {NoBody, NABody}
          /\ cache[k].timestamp \in 0..now
    /\ \A w1, w2 \in Workers :
          w1 # w2 /\ Wrote(w1) /\ Wrote(w2) /\ threads[w1].req = threads[w2].req =>
              /\ KeyOf(w1) \in DOMAIN cache
              /\ cache[KeyOf(w1)] \in {threads[w1].wrote[1], threads[w2].wrote[1]}

\* C16 witness: two threads missed the same key together, fetched different
\* bodies and both wrote; the first read the clock before the second did and
\* assigned after it, so the entry left is the one with the older time.
C16_Witness ==
    /\ Wrote("w1") /\ Wrote("w2")
    /\ threads["w1"].req = threads["w2"].req
    /\ threads["w1"].wrote[1].data # threads["w2"].wrote[1].data
    /\ threads["w1"].wrote[1].timestamp < threads["w2"].wrote[1].timestamp
    /\ cache[KeyOf("w1")] = threads["w1"].wrote[1]

\* C17: the headers of every upstream request are the configured ones,
\* whatever the headers of the inbound request: they hold no Host header and
\* no value of an inbound header.
C17_HostNotForwarded ==
    Ran =>
        /\ last.calls > 0 => last.sent = {api_headers}
        /\ last.calls = 0 => last.sent = {}
        /\ \A hs \in last.sent : \A pr \in hs :
              /\ pr[1] # "Host"
              /\ pr[2] # last.host
              /\ pr \notin InboundHeaders(last.host, "t1") \cup InboundHeaders(last.host, "t2")

\* C17 witness: a request that came with a foreign Host header and a CSRF
\* token has made an upstream request.
C17_Witness ==
    /\ Ran
    /\ last.host # DashHost
    /\ last.method \in {"POST", "DELETE"}
    /\ last.calls > 0
    /\ last.sent = {api_headers}

\* The age of what was last stored for the request being answered, at the
\* time it is answered.
StoredAge(req) == now - stored[req].timestamp

\* C18 as claimed: an entry is served while its age is at most the TTL, the
\* boundary included, and a request goes upstream once the age is greater.
C18_ExpiresAfterTTL ==
    [][\A w \in Workers :
          Leaves(w, "stamp") /\ threads[w].req \in DOMAIN stored =>
              threads'[w].pc = IF StoredAge(threads[w].req) <= cache_timeout
                               THEN "read"
                               ELSE "fetch"]_vars

\* C18 as amended: an entry is served while its age is less than the TTL and
\* a request goes upstream once the age is the TTL or more: at exactly
\* cache_timeout the entry has expired.
C18_ExpiresAtTTL ==
    [][\A w \in Workers :
          Leaves(w, "stamp") =>
              /\ threads[w].req \in DOMAIN stored
              /\ threads'[w].pc = IF StoredAge(threads[w].req) < cache_timeout
                                  THEN "read"
                                  ELSE "fetch"]_vars

\* C18 witness: a GET made exactly cache_timeout after the entry of its key
\* was stored went upstream (and failed there, so that the entry is still
\* the old one).
C18_Witness ==
    /\ CachedGet
    /\ last.req \in DOMAIN stored
    /\ StoredAge(last.req) = cache_timeout
    /\ ~last.hit
    /\ last.calls = 1
    /\ last.error # None

\* The elements of the document whose attribute the rewriter replaced in its
\* first pass.
Rewritten ==
    {i \in DOMAIN document.html :
        /\ <<document.original[i].tag, document.original[i].attr>> \in RewriteRules
        /\ document.html[i].value # document.original[i].value}

\* C19: rewriting is idempotent: once a document has been rewritten, another
\* pass leaves it as it is, every /fetch?url= value being the encoding of
\* the resolved original and not an encoding of an encoding.
C19_RewriteIdempotent ==
    document.passes >= 1 =>
        /\ rewrite(document.html, document.base_url) = document.html
        /\ document.html = rewrite(document.original, document.base_url)
        /\ \A i \in Rewritten :
              document.html[i].value =
                  FetchUrl \o PercentEncode(Resolve(document.base_url, document.original[i].value))

\* C19 witness: a document with a root-relative image has gone through the
\* rewriter twice and its src is a /fetch?url= path.
C19_Witness ==
    /\ document.passes >= 2
    /\ \E i \in Rewritten :
          /\ document.original[i].value = <<"/", "a", ".", "p", "n", "g">>
          /\ StartsWith(document.html[i].value, FetchUrl)
          /\ document.html[i].value # FetchUrl \o document.original[i].value

\* The methods check_csrf looks at
StateChanging == {"POST", "DELETE", "PATCH"}

\* A request with a state-changing method came in in this step.
StateChangingCall == Decided # NoReply /\ Decided.method \in StateChanging

\* The session of the client holds a _csrf_token and the X-CSRF-Token header
\* of the request equals it.
TokenMatches(sess, header) == sess.csrf # NoToken /\ sess.csrf = header

\* C20: a POST, DELETE or PATCH request gets past check_csrf only if the
\* session holds a _csrf_token equal to the X-CSRF-Token header; otherwise it
\* is answered 400 "CSRF token mismatch" without login_required, the rate
\* limiter or the handler running: no upstream request is made and
\* request_times, login_attempts, blocked_ips, the cache and the session are
\* left as they were.
C20_CsrfGate ==
    [][StateChangingCall =>
          IF TokenMatches(session[Decided.ip], Decided.header)
          THEN Decided.stage # "csrf"
          ELSE /\ Decided.stage = "csrf"
               /\ Decided.status = 400
               /\ Decided.kind = "json"
               /\ Decided.error = "CSRF token mismatch"
               /\ Decided.calls = 0
               /\ threads' = threads
               /\ UNCHANGED <<request_times, login_attempts, blocked_ips, cache,
                              session, admitted>>]_vars

\* C20 witness: a logged-in client whose request_times and whose cache are
\* not empty sent a DELETE with a token that is not its session's, and was
\* answered 400 at check_csrf.
C20_Witness ==
    /\ last.stage = "csrf" /\ last.method = "DELETE" /\ last.status = 400
    /\ session[last.ip].logged_in
    /\ last.header \notin {NoToken, session[last.ip].csrf}
    /\ last.ip \in DOMAIN request_times /\ request_times[last.ip] # <<>>
    /\ cache # <<>>

\* A request to /login is being answered.
LoginCall == last = NoReply /\ last' # NoReply /\ last'.route = "login"

\* The ip is not blocked: it has no block entry, or the entry has run out.
Unblocked(ip) == ip \notin DOMAIN blocked_ips \/ now >= blocked_ips[ip]

\* C23: a POST /login with the configured credentials, from a session that is
\* not logged in and holds no _csrf_token, on an IP that is not blocked,
\* reaches the login handler and leaves the session logged in.
C23_LoginReachable ==
    [][/\ LoginCall
       /\ last'.method = "POST"
       /\ last'.form = <<ADMIN_USERNAME, ADMIN_PASSWORD>>
       /\ session[last'.ip] = EmptySession
       /\ Unblocked(last'.ip)
       => /\ last'.stage = "success"
          /\ session'[last'.ip].logged_in]_vars

\* A request to a route behind login_required came in in this step.
ProtectedCall == Decided # NoReply /\ Decided.route \notin {"login", "logout"}

\* The request got to login_required: check_csrf let it through.
ReachedGate == Decided.stage # "csrf"

\* The session is logged in and its login_time is at most SESSION_TIMEOUT ago.
SessionLive(sess) ==
    /\ sess.logged_in
    /\ sess.login_time # NoLoginTime =>
          now - fromisoformat(sess.login_time) <= SESSION_TIMEOUT

\* C21: the handler of a protected route, and the rate limiter before it,
\* run only for a session that is logged in and whose login_time is at most
\* SESSION_TIMEOUT ago; a request that gets to login_required with another
\* session is redirected to /login, makes no upstream request and leaves the
\* rate limiter's table as it was.
C21_AuthGate ==
    [][ProtectedCall =>
        LET sess == session[Decided.ip]
        IN  /\ Decided.stage \in {"rate", "handler"} => SessionLive(sess)
            /\ ReachedGate /\ ~SessionLive(sess) =>
                  /\ Decided.stage = "login"
                  /\ Decided.status = 302 /\ Decided.kind = "redirect"
                  /\ Decided.calls = 0
                  /\ threads' = threads
                  /\ request_times' = request_times
                  /\ admitted' = admitted]_vars

\* C21 witness: a request to /api/status of a session that is not logged in,
\* from an IP with admissions in its window, was redirected.
C21_Witness ==
    /\ last.route = "api_status" /\ last.stage = "login" /\ last.status = 302
    /\ ~logins[last.ip].expired
    /\ last.ip \in DOMAIN request_times
    /\ \E i \in DOMAIN request_times[last.ip] : now - request_times[last.ip][i] < Per

\* The session of the request that came in in this step, as the request
\* leaves it: the one its worker thread holds for the response, or the one
\* its response has brought the client.
RequestSession ==
    IF \E w \in Workers : Takes(w)
    THEN threads'[CHOOSE w \in Workers : Takes(w)].session
    ELSE session'[Decided.ip]

\* C25: a request of a logged-in client that gets to login_required more
\* than SESSION_TIMEOUT after the last request of the client it let through
\* (or after the login) is redirected to /login and leaves the client with a
\* cleared session; and from then on, until a successful login, every
\* request of the client to a protected route is turned away.
C25_SessionExpiry ==
    [][ProtectedCall =>
        LET ip == Decided.ip
        IN  /\ /\ ReachedGate
               /\ session[ip].logged_in
               /\ now - logins[ip].seen > SESSION_TIMEOUT
               => /\ Decided.stage = "login"
                  /\ Decided.status = 302 /\ Decided.kind = "redirect"
                  /\ session'[ip] = EmptySession
            /\ logins[ip].expired => Decided.stage \in {"csrf", "login"}]_vars

\* C26: a request of a logged-in client that gets to login_required at most
\* SESSION_TIMEOUT after the last request of the client it let through (or
\* after the login) is let through, however long ago the login was, and sets
\* the login_time of its session to the current time.
C26_SlidingTimeout ==
    [][ProtectedCall =>
        LET sess == session[Decided.ip]
        IN  /\ ReachedGate
            /\ sess.logged_in
            /\ now - logins[Decided.ip].seen <= SESSION_TIMEOUT
            => /\ Decided.stage \in {"rate", "handler"}
               /\ RequestSession.logged_in
               /\ RequestSession.login_time = isoformat(now)
               /\ fromisoformat(RequestSession.login_time) = now]_vars

\* The IP made MAX_LOGIN_ATTEMPTS failed logins within AttemptWindow, the
\* last of them less than BlockTime ago.
LockedOut(ip) == now < logins[ip].until

\* C22: from the MAX_LOGIN_ATTEMPTS-th failed login within 15 minutes and for
\* the 30 minutes after it the IP has a block entry, and every request to
\* /login of a session of it that is not logged in is answered 429 without a
\* look at the credentials: no attempt is recorded and the session is left
\* as it was.
C22_Lockout ==
    [][/\ \A ip \in IPs :
            LockedOut(ip) =>
                ip \in DOMAIN blocked_ips /\ blocked_ips[ip] = logins[ip].until
       /\ LoginCall /\ ~session[last'.ip].logged_in /\ LockedOut(last'.ip) =>
            /\ last'.stage = "blocked"
            /\ last'.status = 429
            /\ session' = session
            /\ login_attempts' = login_attempts
            /\ blocked_ips' = blocked_ips
            /\ logins' = logins]_vars

\* The block of the IP has run out.
BlockOver(ip) == logins[ip].until > 0 /\ now >= logins[ip].until

\* C24: is_ip_blocked, called once the block of the IP has run out, answers
\* False and leaves no block entry; a failed attempt counted then leaves on
\* the IP's list no attempt from before the end of the block and blocks the
\* IP again only as the MAX_LOGIN_ATTEMPTS-th of the list; the first one after
\* the block is alone on the list and does not block.
C24_BlockEnds ==
    [][/\ last = NoReply /\ last'.route = "is_ip_blocked" /\ BlockOver(last'.ip) =>
            /\ last'.stage = "free"
            /\ last'.ip \notin DOMAIN blocked_ips'
       /\ last # last' /\ last'.route = "add_login_attempt" /\ BlockOver(last'.ip) =>
            LET ip == last'.ip
            IN  /\ \A i \in DOMAIN login_attempts'[ip] :
                      login_attempts'[ip][i] >= logins[ip].until
                /\ ip \in DOMAIN blocked_ips' <=>
                      Len(login_attempts'[ip]) >= MAX_LOGIN_ATTEMPTS
                /\ last'.stage = "blocked" <=> ip \in DOMAIN blocked_ips'
                /\ (\A i \in DOMAIN logins[ip].failed :
                       logins[ip].failed[i] < logins[ip].until) =>
                      /\ login_attempts'[ip] = <<now>>
                      /\ last'.stage = "counted"]_vars

\* C24 witness: the first failed attempt after the block has run out has been
\* counted: the IP's list holds that attempt alone and the IP has no block
\* entry.
C24_Witness ==
    /\ last.route = "add_login_attempt" /\ last.stage = "counted"
    /\ BlockOver(last.ip)
    /\ login_attempts[last.ip] = <<now>>
    /\ last.ip \notin DOMAIN blocked_ips

\* C27: GET /logout leaves the client's session with neither logged_in nor a
\* _csrf_token; for such a session every GET of a protected route is
\* redirected to /login and every POST, DELETE or PATCH is answered 400 by the
\* CSRF check; and the session stays as it is unless a successful login
\* leaves it logged in from now on with the token secrets.token_hex gave that
\* login.
C27_LogoutEndsSession ==
    [][/\ last = NoReply /\ last'.route = "logout" =>
            /\ session'[last'.ip] = EmptySession
            /\ last'.status = 302
       /\ ProtectedCall /\ session[Decided.ip] = EmptySession =>
            /\ IF Decided.method \in StateChanging
               THEN Decided.stage = "csrf" /\ Decided.status = 400
               ELSE Decided.stage = "login" /\ Decided.status = 302
            /\ Decided.calls = 0
            /\ threads' = threads
       /\ \A ip \in IPs :
            session[ip] = EmptySession /\ session'[ip] # EmptySession =>
                /\ last'.route = "login" /\ last'.stage = "success" /\ last'.ip = ip
                /\ session'[ip].logged_in
                /\ session'[ip].login_time = isoformat(now)
                /\ last'.token \in Tokens
                /\ session'[ip].csrf = last'.token]_vars

\* C28: the rate limiter counts per IP over all rate-limited routes: a request
\* to a route with limit L is admitted if and only if fewer than L requests
\* of its IP, to whichever rate-limited routes, were admitted in the Per
\* seconds before it; and the admissions of an IP within one window never
\* number more than the largest limit.
C28_SharedQuota ==
    [][RateChecked =>
        LET ip == Decided.ip
            recent == InWindow(admitted[ip], now)
        IN  /\ Decided.stage = "handler" <=> Len(recent) < RouteLimit(Decided.route)
            /\ Len(admitted'[ip]) <= LimitDefault
            /\ \A other \in IPs : Len(admitted'[other]) <= LimitDefault]_vars

\* C28 witness: /api/stats, whose limit admits fewer requests than any other
\* route's, turns a client away whose window holds as many admissions as the
\* largest limit allows: all but at most LimitStats of them were made to
\* other routes.
C28_Witness ==
    /\ last.route = "get_stats" /\ last.stage = "rate" /\ last.status = 429
    /\ Len(InWindow(admitted[last.ip], now)) = LimitDefault
    /\ LimitDefault > LimitStats

\* How often x is on the list
Count(list, x) == Len(SelectSeq(list, LAMBDA y : y = x))

\* C29: with failed logins of one IP running concurrently, once no request is
\* in progress every failed login less than 15 minutes old is on the IP's
\* list, and the IP has its block entry from the completion of the
\* MAX_LOGIN_ATTEMPTS-th failed login within 15 minutes.
C29_AttemptsSafe ==
    (\A w \in Workers : threads[w].pc = "idle") =>
        \A ip \in IPs :
            /\ LockedOut(ip) => ip \in DOMAIN blocked_ips
            /\ \A i \in DOMAIN logins[ip].failed :
                  LET x == logins[ip].failed[i]
                  IN  now - x < AttemptWindow =>
                          /\ ip \in DOMAIN login_attempts
                          /\ Count(login_attempts[ip], x) >= Count(logins[ip].failed, x)

====
